---------------------------- MODULE Spec2Model ----------------------------
(***************************************************************************)
(* A model of fss-parse-excel-ts: the SafetyManager gate, ExcelParser's    *)
(* parseFile pipeline with its ingestion adapters, the type inference of   *)
(* delimited-text tokens and the CSV/TSV renderer.                         *)
(*                                                                         *)
(* Text is a sequence of one-character strings, so that the functions on   *)
(* text (trimming, Number(), quoting, the csv parser) are computed         *)
(* character by character as the code computes them.                       *)
(***************************************************************************)
EXTENDS Integers, Sequences, FiniteSets, TLC

(***************************************************************************)
(* Bounds of the model.                                                    *)
(***************************************************************************)
\* longest token enumerated exhaustively over TokenAlphabet
MaxTokenLen == 2
\* longest cell text enumerated exhaustively over CellAlphabet
MaxCellLen == 1
\* how many times the configuration mutators may run in one behaviour
MaxUpdates == 1

(***************************************************************************)
(* Text helpers.                                                           *)
(***************************************************************************)
Digits == {"0", "1", "2", "3", "4", "5", "6", "7", "8", "9"}

DigitVal(c) ==
  CASE c = "0" -> 0 [] c = "1" -> 1 [] c = "2" -> 2 [] c = "3" -> 3
    [] c = "4" -> 4 [] c = "5" -> 5 [] c = "6" -> 6 [] c = "7" -> 7
    [] c = "8" -> 8 [] c = "9" -> 9
    [] c \in {"a", "A"} -> 10 [] c \in {"b", "B"} -> 11
    [] c \in {"c", "C"} -> 12 [] c \in {"d", "D"} -> 13
    [] c \in {"e", "E"} -> 14 [] c \in {"f", "F"} -> 15
    [] OTHER -> 99

DigitChar(d) ==
  CASE d = 0 -> "0" [] d = 1 -> "1" [] d = 2 -> "2" [] d = 3 -> "3"
    [] d = 4 -> "4" [] d = 5 -> "5" [] d = 6 -> "6" [] d = 7 -> "7"
    [] d = 8 -> "8" [] d = 9 -> "9" [] d = 10 -> "a" [] d = 11 -> "b"
    [] d = 12 -> "c" [] d = 13 -> "d" [] d = 14 -> "e" [] OTHER -> "f"

UpperLetters ==
  <<"A", "B", "C", "D", "E", "F", "G", "H", "I", "J", "K", "L", "M",
    "N", "O", "P", "Q", "R", "S", "T", "U", "V", "W", "X", "Y", "Z">>
LowerLetters ==
  <<"a", "b", "c", "d", "e", "f", "g", "h", "i", "j", "k", "l", "m",
    "n", "o", "p", "q", "r", "s", "t", "u", "v", "w", "x", "y", "z">>

\* String.prototype.toLowerCase on one character
LowerChar(c) ==
  IF \E i \in 1..26 : UpperLetters[i] = c
    THEN LowerLetters[CHOOSE i \in 1..26 : UpperLetters[i] = c]
    ELSE c

ToLowerCase(s) == [i \in 1..Len(s) |-> LowerChar(s[i])]

\* s.slice(from - 1) .. the characters of s from index `from` (1-based) on
Drop(s, n) == SubSeq(s, n + 1, Len(s))
Take(s, n) == SubSeq(s, 1, n)

\* s.includes(p)
Includes(s, p) ==
  \E i \in 0..(Len(s) - Len(p)) : SubSeq(s, i + 1, i + Len(p)) = p

StartsWith(s, p) == Len(s) >= Len(p) /\ Take(s, Len(p)) = p

AllIn(s, S) == \A i \in 1..Len(s) : s[i] \in S

\* the decimal digits of a natural number
RECURSIVE NatToStr(_)
NatToStr(n) ==
  IF n < 10 THEN <<DigitChar(n)>> ELSE NatToStr(n \div 10) \o <<DigitChar(n % 10)>>

IntToStr(n) == IF n < 0 THEN <<"-">> \o NatToStr(-n) ELSE NatToStr(n)

\* the value of a digit string in a radix (empty string: 0)
RECURSIVE StrToNat(_, _)
StrToNat(s, radix) ==
  IF Len(s) = 0 THEN 0
  ELSE StrToNat(Take(s, Len(s) - 1), radix) * radix + DigitVal(s[Len(s)])

RECURSIVE Pow10(_)
Pow10(n) == IF n <= 0 THEN 1 ELSE 10 * Pow10(n - 1)

NumDigits(n) == Len(NatToStr(n))

WhiteSpace == {" ", "\t", "\n", "\r"}

RECURSIVE TrimStart(_)
TrimStart(s) ==
  IF Len(s) > 0 /\ s[1] \in WhiteSpace THEN TrimStart(Drop(s, 1)) ELSE s

RECURSIVE TrimEnd(_)
TrimEnd(s) ==
  IF Len(s) > 0 /\ s[Len(s)] \in WhiteSpace THEN TrimEnd(Take(s, Len(s) - 1)) ELSE s

Trim(s) == TrimEnd(TrimStart(s))


(***************************************************************************)
(* Number(value): ECMAScript StringToNumber.  A number is kept as an exact *)
(* decimal, mantissa m and exponent e (m * 10^e, m without trailing        *)
(* zeros), or is NaN or an infinity.                                       *)
(***************************************************************************)
NaN == [nan |-> TRUE, inf |-> FALSE, m |-> 0, e |-> 0]
Infinity(sign) == [nan |-> FALSE, inf |-> TRUE, m |-> sign, e |-> 0]

RECURSIVE StripZeros(_, _)
StripZeros(m, e) ==
  IF m = 0 THEN <<0, 0>>
  ELSE IF m % 10 = 0 THEN StripZeros(m \div 10, e + 1) ELSE <<m, e>>

\* the double nearest to sign * m * 10^e: overflow to an infinity above
\* 1.7976931348623157e308, underflow to zero below the subnormals
MakeNumber(sign, m, e) ==
  LET n == StripZeros(m, e)
      top == NumDigits(n[1]) + n[2]
  IN IF n[1] = 0 THEN [nan |-> FALSE, inf |-> FALSE, m |-> 0, e |-> 0]
     ELSE IF top > 309 \/ (top = 309 /\ n[1] * Pow10(9 - NumDigits(n[1])) > 179769313)
       THEN Infinity(sign)
     ELSE IF top < -323 THEN [nan |-> FALSE, inf |-> FALSE, m |-> 0, e |-> 0]
     ELSE [nan |-> FALSE, inf |-> FALSE, m |-> sign * n[1], e |-> n[2]]

\* the first index of s holding a character of S, 0 when there is none
RECURSIVE IndexOfAny(_, _, _)
IndexOfAny(s, S, i) ==
  IF i > Len(s) THEN 0 ELSE IF s[i] \in S THEN i ELSE IndexOfAny(s, S, i + 1)

\* StrUnsignedDecimalLiteral: digits [. digits] [e [+-] digits], or Infinity
UnsignedDecimal(sign, body) ==
  LET ePos == IndexOfAny(body, {"e", "E"}, 1)
      mant == IF ePos = 0 THEN body ELSE Take(body, ePos - 1)
      expo == IF ePos = 0 THEN <<>> ELSE Drop(body, ePos)
      dot == IndexOfAny(mant, {"."}, 1)
      ip == IF dot = 0 THEN mant ELSE Take(mant, dot - 1)
      fp == IF dot = 0 THEN <<>> ELSE Drop(mant, dot)
      eNeg == Len(expo) > 0 /\ expo[1] = "-"
      eDigits == IF Len(expo) > 0 /\ expo[1] \in {"+", "-"} THEN Drop(expo, 1) ELSE expo
      wellFormed == /\ AllIn(ip, Digits) /\ AllIn(fp, Digits)
                    /\ Len(ip) + Len(fp) > 0
                    /\ ePos # 0 => (Len(eDigits) > 0 /\ AllIn(eDigits, Digits))
      eVal == IF eNeg THEN 0 - StrToNat(eDigits, 10) ELSE StrToNat(eDigits, 10)
  IN IF body = <<"I", "n", "f", "i", "n", "i", "t", "y">> THEN Infinity(sign)
     ELSE IF ~wellFormed THEN NaN
     ELSE MakeNumber(sign, StrToNat(ip \o fp, 10), eVal - Len(fp))

RadixDigits(radix) == {c \in Digits \cup {"a", "b", "c", "d", "e", "f",
                                          "A", "B", "C", "D", "E", "F"} :
                         DigitVal(c) < radix}

\* NonDecimalIntegerLiteral: 0x.., 0o.., 0b.. (never signed)
NonDecimal(s) ==
  LET radix == CASE s[2] \in {"x", "X"} -> 16 [] s[2] \in {"o", "O"} -> 8
                 [] OTHER -> 2
      ds == Drop(s, 2)
  IN IF Len(ds) > 0 /\ AllIn(ds, RadixDigits(radix))
       THEN MakeNumber(1, StrToNat(ds, radix), 0)
       ELSE NaN

\* Number(value) of a string
Number(value) ==
  LET s == Trim(value)
  IN IF Len(s) = 0 THEN MakeNumber(1, 0, 0)
     ELSE IF Len(s) >= 2 /\ s[1] = "0" /\ s[2] \in {"x", "X", "o", "O", "b", "B"}
       THEN NonDecimal(s)
     ELSE IF s[1] = "-" THEN UnsignedDecimal(-1, Drop(s, 1))
     ELSE IF s[1] = "+" THEN UnsignedDecimal(1, Drop(s, 1))
     ELSE UnsignedDecimal(1, s)

isNaN(n) == n.nan
isFinite(n) == ~n.nan /\ ~n.inf

(***************************************************************************)
(* Cell values: null, a string, a number, a boolean or a Date.             *)
(***************************************************************************)
NullVal == [k |-> "null", s |-> <<>>, m |-> 0, e |-> 0]
StrVal(s) == [k |-> "string", s |-> s, m |-> 0, e |-> 0]
NumVal(n) == [k |-> "number", s |-> <<>>, m |-> n.m, e |-> n.e]
IntVal(i) == [k |-> "number", s |-> <<>>, m |-> StripZeros(i, 0)[1] , e |-> StripZeros(i, 0)[2]]
BoolVal(b) == [k |-> "boolean", s |-> <<>>, m |-> IF b THEN 1 ELSE 0, e |-> 0]
\* a valid Date, named by the text it was parsed from
DateVal(s) == [k |-> "date", s |-> s, m |-> 0, e |-> 0]

TrueText == <<"t", "r", "u", "e">>
FalseText == <<"f", "a", "l", "s", "e">>

\* value.match(/\d{4}-\d{2}-\d{2}/) at position i
DatePatternAt(s, i) ==
  /\ i + 9 <= Len(s)
  /\ \A j \in {0, 1, 2, 3, 5, 6, 8, 9} : s[i + j] \in Digits
  /\ s[i + 4] = "-" /\ s[i + 7] = "-"

MatchesDatePattern(s) == \E i \in 1..Len(s) : DatePatternAt(s, i)

IsLeapYear(y) == (y % 4 = 0 /\ y % 100 # 0) \/ y % 400 = 0

DaysInMonth(y, mo) ==
  IF mo = 2 THEN (IF IsLeapYear(y) THEN 29 ELSE 28)
  ELSE IF mo \in {4, 6, 9, 11} THEN 30 ELSE 31

\* the text is exactly the date-only form YYYY-MM-DD of the ECMAScript
\* Date Time String Format, with legal element values
IsIsoCalendarDate(s) ==
  /\ Len(s) = 10 /\ DatePatternAt(s, 1)
  /\ LET y == StrToNat(SubSeq(s, 1, 4), 10)
         mo == StrToNat(SubSeq(s, 6, 7), 10)
         d == StrToNat(SubSeq(s, 9, 10), 10)
     IN mo \in 1..12 /\ d \in 1..DaysInMonth(y, mo)

\* !isNaN(new Date(value).getTime()): every engine accepts the Date Time
\* String Format; whether any other text parses is left by ECMAScript to
\* the engine's fallback (lenient: the fallback accepts it)
DateParses(value, lenient) == IsIsoCalendarDate(value) \/ lenient

(***************************************************************************)
(* ExcelParser.parseValue and ExcelParser.inferType.                       *)
(***************************************************************************)
\* parseValue wrongly comparing with 'true' and 'false' as they are written
parseValueCaseSensitive(value, lenient) ==
  LET numValue == Number(value)
  IN IF ~isNaN(numValue) /\ isFinite(numValue) THEN NumVal(numValue)
     ELSE IF value = TrueText THEN BoolVal(TRUE)
     ELSE IF value = FalseText THEN BoolVal(FALSE)
     ELSE IF DateParses(value, lenient) /\ MatchesDatePattern(value)
       THEN DateVal(value)
     ELSE StrVal(value)

parseValue(value, lenient) ==
  LET numValue == Number(value)
  IN IF ~isNaN(numValue) /\ isFinite(numValue) THEN NumVal(numValue)
     ELSE IF ToLowerCase(value) = TrueText THEN BoolVal(TRUE)
     ELSE IF ToLowerCase(value) = FalseText THEN BoolVal(FALSE)
     ELSE IF DateParses(value, lenient) /\ MatchesDatePattern(value)
       THEN DateVal(value)
     ELSE StrVal(value)

inferType(value, lenient) ==
  LET numValue == Number(value)
  IN IF ~isNaN(numValue) /\ isFinite(numValue) THEN "number"
     ELSE IF ToLowerCase(value) = TrueText \/ ToLowerCase(value) = FalseText
       THEN "boolean"
     ELSE IF DateParses(value, lenient) /\ MatchesDatePattern(value) THEN "date"
     ELSE "string"

\* one cell of the delimited-text adapter (the row.map of the data handler)
Cell(v, t) == [value |-> v, type |-> t]
EmptyCell == Cell(NullVal, "string")
\* the cell of a token not yet through the handler
PendingCell == Cell(NullVal, "pending")


(***************************************************************************)
(* csvParse({delimiter, skip_empty_lines: true, trim: true}): the          *)
(* character loop of csv-parse with the options parseCsvFile passes and    *)
(* the library's defaults for the rest (quote and escape '"', relax_quotes *)
(* and relax_column_count off, records delimited by a newline).            *)
(***************************************************************************)
Quote == "\""
NewLine == "\n"
Comma == ","
Tab == "\t"

\* __isCharTrimable
Trimable == {" ", "\t", "\r", "\n", "\f"}

CsvStart ==
  [pos |-> 1, quoting |-> FALSE, wasQuoting |-> FALSE, escaping |-> FALSE,
   field |-> <<>>, record |-> <<>>, records |-> <<>>, expected |-> 0,
   err |-> "", atEnd |-> FALSE]

\* __onField: the field joins the record, right-trimmed unless it was quoted
OnField(st) ==
  [st EXCEPT !.record = Append(st.record,
                               IF st.wasQuoting THEN st.field ELSE TrimEnd(st.field)),
             !.field = <<>>,
             !.wasQuoting = FALSE]

\* __onRecord: the first record sets the expected length, a record of another
\* length is an error (relax_column_count is off), any other is emitted
OnRecord(st) ==
  LET expected == IF Len(st.records) = 0 THEN Len(st.record) ELSE st.expected
  IN IF Len(st.record) # expected
       THEN [st EXCEPT !.err = "Invalid Record Length"]
       ELSE [st EXCEPT !.records = Append(st.records, st.record),
                       !.record = <<>>,
                       !.expected = expected]

\* the append at the end of the loop body
AppendChr(st, chr) ==
  LET lappend == st.quoting \/ Len(st.field) # 0 \/ chr \notin Trimable
      rappend == ~st.wasQuoting
  IN IF lappend /\ rappend
       THEN [st EXCEPT !.field = Append(st.field, chr), !.pos = st.pos + 1]
     ELSE IF chr \notin Trimable
       THEN [st EXCEPT !.err = "Invalid Closing Quote: found non trimable byte after quote"]
     ELSE [st EXCEPT !.pos = st.pos + 1]

\* one turn of the loop, on the character at st.pos
CsvStep(st, buf, delimiter) ==
  LET chr == buf[st.pos]
      hasNext == st.pos + 1 <= Len(buf)
      nextChr == IF hasNext THEN buf[st.pos + 1] ELSE ""
      next == [st EXCEPT !.pos = st.pos + 1]
  IN IF st.escaping THEN AppendChr([st EXCEPT !.escaping = FALSE], chr)
     ELSE IF st.quoting /\ chr = Quote /\ hasNext /\ nextChr = Quote
       THEN [next EXCEPT !.escaping = TRUE]
     ELSE IF chr = Quote /\ st.quoting
       THEN IF ~hasNext \/ nextChr = delimiter \/ nextChr = NewLine
               \/ nextChr \in Trimable
              THEN [next EXCEPT !.quoting = FALSE, !.wasQuoting = TRUE]
              ELSE [st EXCEPT !.err = "Invalid Closing Quote"]
     ELSE IF chr = Quote
       THEN IF Len(st.field) # 0
              THEN [st EXCEPT !.err = "Invalid Opening Quote"]
              ELSE [next EXCEPT !.quoting = TRUE]
     ELSE IF ~st.quoting /\ chr = NewLine
       THEN IF ~st.wasQuoting /\ Len(st.record) = 0 /\ Len(st.field) = 0
              THEN next
              ELSE [OnRecord(OnField(st)) EXCEPT !.pos = st.pos + 1]
     ELSE IF ~st.quoting /\ chr = delimiter
       THEN [OnField(st) EXCEPT !.pos = st.pos + 1]
     ELSE AppendChr(st, chr)

\* the end of the input
CsvFlush(st) ==
  IF st.quoting THEN [st EXCEPT !.err = "Quote Not Closed"]
  ELSE IF st.wasQuoting \/ Len(st.record) # 0 \/ Len(st.field) # 0
    THEN OnRecord(OnField(st))
  ELSE st

\* the loop over the file's one chunk. The parser holds the last two
\* characters of a chunk back until it knows whether more follow, so it reads
\* them, as it flushes, only once the read stream has ended: atEnd tells
\* whether the last character read was read then
RECURSIVE CsvRun(_, _, _)
CsvRun(st, buf, delimiter) ==
  IF st.err # "" THEN st
  ELSE IF st.pos > Len(buf) THEN [CsvFlush(st) EXCEPT !.atEnd = TRUE]
  ELSE CsvRun([CsvStep(st, buf, delimiter) EXCEPT !.atEnd = Len(buf) - st.pos < 2],
              buf, delimiter)

\* the records the parser emits as 'data', then 'end' (err = "") or 'error';
\* atEnd tells whether the read stream had ended by then
csvParse(buf, delimiter) ==
  LET st == CsvRun(CsvStart, buf, delimiter)
  IN [records |-> st.records, err |-> st.err, atEnd |-> st.atEnd]


(***************************************************************************)
(* SafetyManager.                                                          *)
(***************************************************************************)
\* 500 * 1024 * 1024
DefaultMaxFileSize == 524288000
\* the bytes basicMalwareCheck decodes
ScanLimit == 10000
\* the length of a hex SHA-256 digest
HashHexLen == 64

DefaultAllowedExtensions ==
  {<<".", "x", "l", "s", "x">>, <<".", "x", "l", "s">>, <<".", "x", "l", "s", "m">>, <<".", "c", "s", "v">>, <<".", "t", "s", "v">>, <<".", "o", "d", "s">>}

\* the last index of s holding c, 0 when there is none
RECURSIVE LastIndexOf(_, _, _)
LastIndexOf(s, c, i) ==
  IF i = 0 THEN 0 ELSE IF s[i] = c THEN i ELSE LastIndexOf(s, c, i - 1)

\* path.basename
basename(p) == Drop(p, LastIndexOf(p, "/", Len(p)))

\* path.extname: from the last dot of the base name, empty when there is no
\* dot or the only dot leads the name
extname(p) ==
  LET base == basename(p)
      dot == LastIndexOf(base, ".", Len(base))
  IN IF dot <= 1 THEN <<>> ELSE Drop(base, dot - 1)

\* an entry of issues / errors: the message, with the values interpolated in it
Issue(msg, ext, n, max, cause) ==
  [msg |-> msg, ext |-> ext, n |-> n, max |-> max, cause |-> cause]

NoReport ==
  [made |-> FALSE, isSafe |-> FALSE, issues |-> <<>>, hash |-> <<>>, fileSize |-> 0]
Report(isSafe, issues, hash, fileSize) ==
  [made |-> TRUE, isSafe |-> isSafe, issues |-> issues, hash |-> hash,
   fileSize |-> fileSize]

suspiciousPatterns ==
  {<<"e", "v", "a", "l", "(">>, <<"e", "x", "e", "c", "(">>, <<"s", "y", "s", "t", "e", "m", "(">>, <<"s", "h", "e", "l", "l", "_", "e", "x", "e", "c", "(">>,
   <<"j", "a", "v", "a", "s", "c", "r", "i", "p", "t", ":">>, <<"<", "s", "c", "r", "i", "p", "t">>, <<"v", "b", "s", "c", "r", "i", "p", "t", ":">>,
   <<"A", "c", "t", "i", "v", "e", "X", "O", "b", "j", "e", "c", "t">>}

\* basicMalwareCheck: some pattern occurs, whatever the case, in the first
\* ScanLimit bytes
basicMalwareCheck(buffer) ==
  LET content == Take(buffer, IF Len(buffer) < ScanLimit THEN Len(buffer) ELSE ScanLimit)
  IN \E pattern \in suspiciousPatterns :
       Includes(ToLowerCase(content), ToLowerCase(pattern))

\* a code for a byte, for the digest
CodeTable ==
  <<"a", "b", "c", "d", "e", "h", "i", "l", "o", "p", "r", "s", "t", "u",
    "0", "1", "2", "4", "5", "-", ",", "\n", "\t", "\"", "<", " ", "P", "K">>
ByteCode(c) ==
  IF \E i \in 1..Len(CodeTable) : CodeTable[i] = c
    THEN CHOOSE i \in 1..Len(CodeTable) : CodeTable[i] = c
    ELSE 0

RECURSIVE Mix(_, _)
Mix(h, buffer) ==
  IF Len(buffer) = 0 THEN h
  ELSE Mix((h * 31 + ByteCode(buffer[1]) + 1) % 65536, Drop(buffer, 1))

\* crypto.createHash('sha256').update(fileBuffer).digest('hex'): a digest
\* of the whole buffer, HashHexLen hex digits whatever the buffer
sha256Hex(buffer) ==
  LET h == Mix(7, buffer)
  IN [i \in 1..HashHexLen |-> DigitChar(((h \div (1 + (i % 7))) + i * (h % 13)) % 16)]

HexDigits == {DigitChar(d) : d \in 0..15}

\* the three conditional pushes of validateFile
CheckExtension(issues, ext, allowed) ==
  IF ext \notin allowed
    THEN Append(issues, Issue("Unsupported file extension", ext, 0, 0, ""))
    ELSE issues

\* CheckSize wrongly skipped once an earlier check has failed
CheckSizeShortCircuit(issues, fileSize, max) ==
  IF Len(issues) = 0 /\ fileSize > max
    THEN Append(issues, Issue("File too large", <<>>, fileSize, max, ""))
    ELSE issues

CheckSize(issues, fileSize, max) ==
  IF fileSize > max
    THEN Append(issues, Issue("File too large", <<>>, fileSize, max, ""))
    ELSE issues

CheckMalware(issues, hit) ==
  IF hit
    THEN Append(issues, Issue("Potential security risk detected", <<>>, 0, 0, ""))
    ELSE issues

\* the three returns of validateFile
MissingReport(issues) ==
  Report(FALSE, Append(issues, Issue("File does not exist", <<>>, 0, 0, "")), <<>>, 0)

\* FinalReport wrongly judging the file before the last check's issue
FinalReportStale(issues, hash, fileSize) ==
  Report(Len(issues) <= 1, issues, hash, fileSize)

FinalReport(issues, hash, fileSize) ==
  Report(Len(issues) = 0, issues, hash, fileSize)

\* CaughtReport wrongly throwing again
CaughtRethrown(issues, cause) == [threw |-> TRUE, report |-> NoReport]

\* the catch clause: whatever was thrown becomes one more issue
CaughtReport(issues, cause) ==
  [threw |-> FALSE,
   report |-> Report(FALSE, Append(issues, Issue("Validation error", <<>>, 0, 0, cause)),
                     <<>>, 0)]


(***************************************************************************)
(* The address codec of the workbook library, as ExcelParser calls it.     *)
(***************************************************************************)
RECURSIVE EncodeColFrom(_)
EncodeColFrom(n) ==
  IF n <= 0 THEN <<>>
  ELSE EncodeColFrom((n - 1) \div 26) \o <<UpperLetters[((n - 1) % 26) + 1]>>

\* XLSX.utils.encode_cell({r, c})
encode_cell(r, c) == EncodeColFrom(c + 1) \o IntToStr(r + 1)

LetterVal(ch) ==
  IF \E i \in 1..26 : UpperLetters[i] = ch
    THEN CHOOSE i \in 1..26 : UpperLetters[i] = ch
    ELSE 0

\* the scan of decode_cell: digits build the row, capital letters the column
RECURSIVE DecodeScan(_, _, _)
DecodeScan(s, R, C) ==
  IF Len(s) = 0 THEN [r |-> R - 1, c |-> C - 1]
  ELSE IF s[1] \in Digits THEN DecodeScan(Drop(s, 1), 10 * R + DigitVal(s[1]), C)
  ELSE IF LetterVal(s[1]) > 0 THEN DecodeScan(Drop(s, 1), R, 26 * C + LetterVal(s[1]))
  ELSE DecodeScan(Drop(s, 1), R, C)

decode_cell(s) == DecodeScan(s, 0, 0)

\* XLSX.utils.decode_range
decode_range(range) ==
  LET idx == IndexOfAny(range, {":"}, 1)
  IN IF idx = 0 THEN [s |-> decode_cell(range), e |-> decode_cell(range)]
     ELSE [s |-> decode_cell(Take(range, idx - 1)), e |-> decode_cell(Drop(range, idx))]

A1A1 == <<"A", "1", ":", "A", "1">>
Sheet1 == <<"S", "h", "e", "e", "t", "1">>

(***************************************************************************)
(* WorkbookData.  sheets is a JavaScript object: its keys are kept in the  *)
(* order Object.keys, Object.values and JSON.stringify visit them, the     *)
(* integer-like keys first and ascending, then the others as inserted.     *)
(***************************************************************************)
NoWorkbook == [sheets |-> <<>>]

IsIndexKey(k) ==
  Len(k) > 0 /\ Len(k) < 10 /\ AllIn(k, Digits) /\ (k[1] # "0" \/ Len(k) = 1)

\* does key a come before a new key b in the object's order
KeyBefore(a, b) ==
  IF IsIndexKey(b)
    THEN IsIndexKey(a) /\ StrToNat(a, 10) < StrToNat(b, 10)
    ELSE TRUE

RECURSIVE ObjInsert(_, _)
ObjInsert(obj, entry) ==
  IF Len(obj) = 0 THEN <<entry>>
  ELSE IF KeyBefore(obj[1].name, entry.name)
    THEN <<obj[1]>> \o ObjInsert(Drop(obj, 1), entry)
  ELSE <<entry>> \o obj

\* obj[name] = sheet
ObjSet(obj, name, sheet) ==
  IF \E i \in 1..Len(obj) : obj[i].name = name
    THEN [i \in 1..Len(obj) |->
            IF obj[i].name = name THEN [name |-> name, sheet |-> sheet] ELSE obj[i]]
    ELSE ObjInsert(obj, [name |-> name, sheet |-> sheet])

SheetData(name, data, range, rowCount, columnCount) ==
  [name |-> name, data |-> data, range |-> range, rowCount |-> rowCount,
   columnCount |-> columnCount]

(***************************************************************************)
(* The binary-workbook adapter.  What the codec decodes from a file is a   *)
(* book: whether it could be decoded, SheetNames, and Sheets, each a       *)
(* worksheet with its '!ref' (or none) and its populated cells by address. *)
(***************************************************************************)
mapCellType(xlsxType) ==
  CASE xlsxType = "n" -> "number"
    [] xlsxType = "d" -> "date"
    [] xlsxType = "b" -> "boolean"
    [] xlsxType = "e" -> "error"
    [] OTHER -> "string"

\* the cell the loop of processWorksheet stores for one address
CellAt(worksheet, cellAddress) ==
  IF \E cell \in worksheet.cells : cell.addr = cellAddress
    THEN LET cell == CHOOSE cell \in worksheet.cells : cell.addr = cellAddress
         IN Cell(cell.v, mapCellType(cell.t))
    ELSE EmptyCell

\* processWorksheet wrongly looking the cells up from A1
processWorksheetFromOrigin(worksheet, sheetName) ==
  LET ref == IF worksheet.hasRef /\ Len(worksheet.ref) > 0 THEN worksheet.ref ELSE A1A1
      range == decode_range(ref)
      data == [i \in 1..(range.e.r - range.s.r + 1) |->
                [j \in 1..(range.e.c - range.s.c + 1) |->
                   CellAt(worksheet, encode_cell(i - 1, j - 1))]]
  IN SheetData(sheetName, data, ref, range.e.r - range.s.r + 1,
               range.e.c - range.s.c + 1)

processWorksheet(worksheet, sheetName) ==
  LET ref == IF worksheet.hasRef /\ Len(worksheet.ref) > 0 THEN worksheet.ref ELSE A1A1
      range == decode_range(ref)
      data == [i \in 1..(range.e.r - range.s.r + 1) |->
                [j \in 1..(range.e.c - range.s.c + 1) |->
                   CellAt(worksheet, encode_cell(range.s.r + i - 1, range.s.c + j - 1))]]
  IN SheetData(sheetName, data, ref, range.e.r - range.s.r + 1,
               range.e.c - range.s.c + 1)

\* how an adapter's promise settles
Resolved(wb) == [ok |-> TRUE, wb |-> wb, cause |-> ""]
Rejected(cause) == [ok |-> FALSE, wb |-> NoWorkbook, cause |-> cause]
NoSettle == [ok |-> FALSE, wb |-> NoWorkbook, cause |-> "pending"]

\* the for loop over sheetsToProcess
RECURSIVE ProcessSheets(_, _, _)
ProcessSheets(names, book, sheets) ==
  IF Len(names) = 0 THEN sheets
  ELSE LET sheetName == names[1]
           next == IF \E e \in book.Sheets : e.name = sheetName
                     THEN ObjSet(sheets, sheetName,
                                 processWorksheet(
                                   (CHOOSE e \in book.Sheets : e.name = sheetName).ws,
                                   sheetName))
                     ELSE sheets
       IN ProcessSheets(Drop(names, 1), book, next)

\* which declared sheets parseExcelFile processes
sheetsToProcess(SheetNames, readAllSheets) ==
  IF readAllSheets THEN SheetNames ELSE <<SheetNames[1]>>

parseExcelFile(file, readAllSheets) ==
  IF ~file.exists \/ ~file.readable THEN Rejected("cannot read the file")
  ELSE IF ~file.book.ok THEN Rejected("cannot decode the container")
  ELSE IF Len(file.book.SheetNames) = 0
    THEN Rejected("No sheets found in workbook or invalid sheet names")
  ELSE Resolved([sheets |->
         ProcessSheets(sheetsToProcess(file.book.SheetNames, readAllSheets),
                       file.book, <<>>)])

(***************************************************************************)
(* The delimited-text adapter: the handlers parseCsvFile attaches.         *)
(***************************************************************************)
\* the 'data' handler's row.map
CsvRow(row, lenient) ==
  [i \in 1..Len(row) |-> Cell(parseValue(row[i], lenient), inferType(row[i], lenient))]

Max(a, b) == IF a >= b THEN a ELSE b

\* the 'end' handler's sheet
CsvSheet(data) ==
  LET width == IF Len(data) > 0 THEN Len(data[1]) ELSE 0
  IN SheetData(Sheet1, data,
               <<"A", "1", ":">>
                 \o encode_cell(Len(data) - 1, Max(0, (IF width = 0 THEN 1 ELSE width) - 1)),
               Len(data), width)


(***************************************************************************)
(* The state: one ExcelParser with its SafetyManager, the file it is asked *)
(* to parse, and the parseFile calls in flight.                            *)
(***************************************************************************)
VARIABLES
  config,             \* ExcelParser.config (the fields the pipeline reads)
  maxFileSize,        \* SafetyManager.maxFileSize
  allowedExtensions,  \* SafetyManager.allowedExtensions
  updates,            \* how many times a mutator has run
  path,               \* the filePath the calls are given
  disk,               \* the file at that path
  lenient,            \* the engine's Date fallback accepts non-ISO text
  crashed,            \* an 'error' event without a listener ended the process
  calls,              \* the parseFile calls
  token, inferred,    \* a delimited-text token and its cell (type inference)
  sheet, rendered, reread, \* a workbook, its rendering, the rendering read back
  asked               \* the operation and the format the rendering was asked with

vars == <<config, maxFileSize, allowedExtensions, updates, path, disk, lenient,
          crashed, calls, token, inferred, sheet, rendered, reread, asked>>

pipelineVars == <<config, maxFileSize, allowedExtensions, updates, path, disk,
                  crashed, calls>>
inferVars == <<token, inferred>>
renderVars == <<sheet, rendered, reread, asked>>

Calls == {"c1", "c2"}

Paths ==
  {<<"a", ".", "x", "l", "s", "x">>, <<"a", ".", "X", "L", "S", "M">>, <<"a", ".", "c", "s", "v">>, <<"a", ".", "t", "s", "v">>,
   <<"a", ".", "o", "d", "s">>, <<"a", ".", "t", "x", "t">>, <<".", "c", "s", "v">>}

\* filePath.toLowerCase().split('.').pop()
DispatchExtension(filePath) ==
  LET p == ToLowerCase(filePath)
  IN Drop(p, LastIndexOf(p, ".", Len(p)))

ExcelExtensions == {<<"x", "l", "s", "x">>, <<"x", "l", "s">>, <<"x", "l", "s", "m">>}

\* the contents of delimited-text files
CsvTexts ==
  {<<>>, <<"a", ",", "b", "\n", "c", ",", "d">>, <<"a", ",", "b", "\n", "c">>, <<"<", "s", "c", "r", "i", "p", "t">>,
   <<"1", ",", "t", "r", "u", "e", "\n", "2", "0", "2", "4", "-", "0", "1", "-", "0", "1", ",", "h", "e", "l", "l", "o">>, <<"\"", "a">>, <<",", "\n", "5">>,
   <<"a", "\n", "b", ",", "c", "\n", "d", "e">>}

\* the bytes of workbook containers
ContainerBytes == {<<"P", "K">>, <<"P", "K", "<", "S", "C", "R", "I", "P", "T">>}

NoBook == [ok |-> FALSE, SheetNames |-> <<>>, Sheets |-> {}]
EmptyBook == [ok |-> TRUE, SheetNames |-> <<>>, Sheets |-> {}]
OneSheetBook ==
  [ok |-> TRUE,
   SheetNames |-> <<<<"D", "a", "t", "a">>>>,
   Sheets |-> {[name |-> <<"D", "a", "t", "a">>,
                ws |-> [hasRef |-> TRUE, ref |-> <<"B", "2", ":", "C", "3">>,
                        cells |-> {[addr |-> <<"B", "2">>, t |-> "n", v |-> IntVal(1)],
                                   [addr |-> <<"C", "3">>, t |-> "s", v |-> StrVal(<<"a">>)]}]]}]
ManySheetBook ==
  [ok |-> TRUE,
   SheetNames |-> <<<<"Q">>, <<"2">>, <<"1">>>>,
   Sheets |-> {[name |-> <<"Q">>,
                ws |-> [hasRef |-> TRUE, ref |-> <<"A", "1", ":", "B", "1">>,
                        cells |-> {[addr |-> <<"A", "1">>, t |-> "b", v |-> BoolVal(TRUE)]}]],
               [name |-> <<"2">>,
                ws |-> [hasRef |-> TRUE, ref |-> <<"A", "1">>,
                        cells |-> {[addr |-> <<"A", "1">>, t |-> "z", v |-> NullVal]}]],
               [name |-> <<"1">>,
                ws |-> [hasRef |-> FALSE, ref |-> <<>>, cells |-> {}]]}]
Books == {NoBook, EmptyBook, OneSheetBook, ManySheetBook}

Configs == [safetyChecks : BOOLEAN, readAllSheets : BOOLEAN]

\* the values the mutators are called with
SizeArgs == {0, 5}
ExtensionArgs == {<<".", "T", "X", "T">>, <<".", "o", "d", "s">>}

\* a Date in the text that only the engine's fallback can accept
NeedsFallback(text) ==
  \E i \in 1..Len(text) :
    DatePatternAt(text, i) /\ ~IsIsoCalendarDate(SubSeq(text, i, i + 9))

NoRequest == [op |-> "none", format |-> <<>>]

NotRendered == [done |-> FALSE, ok |-> FALSE, text |-> <<>>, delimiter |-> "", err |-> "",
                named |-> <<>>, sheetName |-> <<>>]

NoResult == [success |-> FALSE, hasData |-> FALSE, data |-> NoWorkbook, errors |-> <<>>]

NoProbe == [ran |-> FALSE, extBad |-> FALSE, tooLarge |-> FALSE, script |-> FALSE,
            failed |-> FALSE]

IdleCall ==
  [pc |-> "idle", epoch |-> 0, gated |-> FALSE, probe |-> NoProbe,
   issues |-> <<>>, hash |-> <<>>, fileSize |-> 0, hit |-> FALSE,
   threw |-> FALSE, report |-> NoReport,
   adapter |-> "none", handle |-> "none",
   parsed |-> [records |-> <<>>, err |-> "", atEnd |-> FALSE], data |-> <<>>,
   settle |-> NoSettle, result |-> NoResult]

Init ==
  /\ path \in Paths
  /\ \E exists \in BOOLEAN, readable \in BOOLEAN, bytes \in CsvTexts \cup ContainerBytes,
        book \in Books :
       /\ ~exists => readable
       /\ IF DispatchExtension(path) \in ExcelExtensions
            THEN bytes \in ContainerBytes
            ELSE bytes \in CsvTexts /\ book = NoBook
       /\ disk = [exists |-> exists, readable |-> readable, bytes |-> bytes, book |-> book]
  /\ config \in Configs
  /\ maxFileSize = DefaultMaxFileSize
  /\ allowedExtensions = DefaultAllowedExtensions
  /\ updates = 0
  /\ lenient \in (IF NeedsFallback(disk.bytes) THEN BOOLEAN ELSE {FALSE})
  /\ crashed = FALSE
  /\ calls = [c \in Calls |-> IdleCall]
  /\ token = <<>> /\ inferred = PendingCell
  /\ sheet = NoWorkbook /\ rendered = NotRendered /\ reread = NoSettle
  /\ asked = NoRequest

(***************************************************************************)
(* ExcelParser.parseFile, cut at its awaits.                               *)
(***************************************************************************)
\* the catch clause of parseFile
ParseFailed(call, cause, ext) ==
  [call EXCEPT !.pc = "done",
               !.result = [call.result EXCEPT
                             !.errors = Append(call.result.errors,
                                               Issue("Parsing failed", ext, 0, 0, cause))]]

\* the switch on the extension: the adapter is called, and runs to its first
\* asynchronous step
Dispatch(call, filePath, file, cfg) ==
  LET extension == DispatchExtension(filePath)
  IN IF extension \in ExcelExtensions
       THEN [call EXCEPT !.adapter = "excel", !.pc = "awaitAdapter",
                         !.settle = parseExcelFile(file, cfg.readAllSheets)]
     ELSE IF extension = <<"c", "s", "v">>
       THEN [call EXCEPT !.adapter = "csv", !.pc = "opening"]
     ELSE IF extension = <<"t", "s", "v">>
       THEN [call EXCEPT !.adapter = "tsv", !.pc = "opening"]
     ELSE ParseFailed(call, "Unsupported file format", extension)

\* GateRefusal wrongly going on to the adapter
GateIgnored(call) == Dispatch(call, path, disk, config)

\* GateRefusal wrongly wrapping the issues in one parse error
GateRefusalWrapped(call) == ParseFailed(call, "unsafe file", <<>>)

\* the early return of parseFile on an unsafe report
GateRefusal(call) ==
  [call EXCEPT !.pc = "done",
               !.result = [call.result EXCEPT !.errors = call.report.issues]]

\* what the gate's checks are given: observed apart from the checks themselves
Probe(filePath, file, allowed, max, failed) ==
  [ran |-> TRUE,
   extBad |-> ToLowerCase(extname(filePath)) \notin allowed,
   tooLarge |-> Len(file.bytes) > max,
   script |-> Includes(Take(file.bytes, Max(0, IF Len(file.bytes) < ScanLimit
                                                  THEN Len(file.bytes) ELSE ScanLimit)),
                       <<"<", "s", "c", "r", "i", "p", "t">>),
   failed |-> failed]

\* validateFile up to its await (or its return, when it returns before):
\* io names the call that throws, if one does
validateFile(call, filePath, file, allowed, max, io) ==
  IF ~file.exists
    THEN [call EXCEPT !.pc = "awaitValidate", !.report = MissingReport(<<>>),
                      !.probe = [NoProbe EXCEPT !.ran = TRUE, !.failed = TRUE]]
  ELSE
    LET ext == ToLowerCase(extname(filePath))
        afterExt == CheckExtension(<<>>, ext, allowed)
        fileSize == Len(file.bytes)
        afterSize == CheckSize(afterExt, fileSize, max)
        caught == IF io = "stat" THEN CaughtReport(afterExt, "statSync failed")
                  ELSE CaughtReport(afterSize, "readFileSync failed")
    IN IF io # "none"
         THEN [call EXCEPT !.pc = "awaitValidate", !.threw = caught.threw,
                           !.report = IF caught.threw THEN NoReport ELSE caught.report,
                           !.probe = Probe(filePath, file, allowed, max, TRUE)]
         ELSE [call EXCEPT !.pc = "awaitMalware", !.issues = afterSize,
                           !.hash = sha256Hex(file.bytes), !.fileSize = fileSize,
                           !.hit = basicMalwareCheck(file.bytes),
                           !.probe = Probe(filePath, file, allowed, max, FALSE)]

\* the calls of validateFile that can throw on this file: reading a file the
\* process may not read throws; a file that another process removes between
\* two calls makes statSync or readFileSync throw
IoOutcomes(file) ==
  IF ~file.readable THEN {"read"} ELSE {"none", "stat", "read"}

\* parseFile is called: the envelope is made, and either the gate is entered
\* or, with safetyChecks off, the adapter is chosen at once (the calls being
\* alike, c1 names the one that is made first); epoch remembers how many
\* mutator calls came before this one
ParseStart(c) ==
  /\ ~crashed /\ calls[c].pc = "idle"
  /\ c = "c2" => calls["c1"].pc # "idle"
  /\ IF config.safetyChecks
       THEN \E io \in IoOutcomes(disk) :
              calls' = [calls EXCEPT ![c] =
                validateFile([calls[c] EXCEPT !.gated = TRUE, !.epoch = updates],
                             path, disk, allowedExtensions, maxFileSize, io)]
       ELSE calls' = [calls EXCEPT ![c] =
              Dispatch([calls[c] EXCEPT !.epoch = updates], path, disk, config)]
  /\ UNCHANGED <<config, maxFileSize, allowedExtensions, updates, path, disk, lenient,
                 crashed, inferVars, renderVars>>

\* validateFile resumes after await basicMalwareCheck, and returns
ValidateResume(c) ==
  /\ ~crashed /\ calls[c].pc = "awaitMalware"
  /\ LET issues == CheckMalware(calls[c].issues, calls[c].hit)
     IN calls' = [calls EXCEPT ![c] =
          [calls[c] EXCEPT !.pc = "awaitValidate", !.issues = issues,
                           !.report = FinalReport(issues, calls[c].hash, calls[c].fileSize)]]
  /\ UNCHANGED <<config, maxFileSize, allowedExtensions, updates, path, disk, lenient,
                 crashed, inferVars, renderVars>>

\* parseFile resumes after await validateFile
GateResume(c) ==
  /\ ~crashed /\ calls[c].pc = "awaitValidate"
  /\ calls' = [calls EXCEPT ![c] =
       IF calls[c].threw THEN ParseFailed(calls[c], "validateFile threw", <<>>)
       ELSE IF ~calls[c].report.isSafe THEN GateRefusal(calls[c])
       ELSE Dispatch(calls[c], path, disk, config)]
  /\ UNCHANGED <<config, maxFileSize, allowedExtensions, updates, path, disk, lenient,
                 crashed, inferVars, renderVars>>

Delimiter(call) == IF call.adapter = "tsv" THEN Tab ELSE Comma

\* the read stream opens the file and feeds it to the parser
StreamOpen(c) ==
  /\ ~crashed /\ calls[c].pc = "opening"
  /\ disk.exists /\ disk.readable
  /\ calls' = [calls EXCEPT ![c] =
       [calls[c] EXCEPT !.pc = "streaming", !.handle = "open",
                        !.parsed = csvParse(disk.bytes, Delimiter(calls[c]))]]
  /\ UNCHANGED <<config, maxFileSize, allowedExtensions, updates, path, disk, lenient,
                 crashed, inferVars, renderVars>>

\* the read stream cannot open the file: it emits 'error', and parseCsvFile
\* listens for 'error' on the parser only
StreamOpenFails(c) ==
  /\ ~crashed /\ calls[c].pc = "opening"
  /\ ~(disk.exists /\ disk.readable)
  /\ crashed' = TRUE
  /\ UNCHANGED <<config, maxFileSize, allowedExtensions, updates, path, disk, lenient,
                 calls, inferVars, renderVars>>

\* the 'data' handler, for the next record
CsvData(c) ==
  /\ ~crashed /\ calls[c].pc = "streaming"
  /\ Len(calls[c].data) < Len(calls[c].parsed.records)
  /\ calls' = [calls EXCEPT ![c] =
       [calls[c] EXCEPT !.data =
          Append(calls[c].data,
                 CsvRow(calls[c].parsed.records[Len(calls[c].data) + 1], lenient))]]
  /\ UNCHANGED <<config, maxFileSize, allowedExtensions, updates, path, disk, lenient,
                 crashed, inferVars, renderVars>>

\* the 'end' handler
CsvEnd(c) ==
  /\ ~crashed /\ calls[c].pc = "streaming"
  /\ Len(calls[c].data) = Len(calls[c].parsed.records)
  /\ calls[c].parsed.err = ""
  /\ calls' = [calls EXCEPT ![c] =
       [calls[c] EXCEPT !.pc = "awaitAdapter", !.handle = "closed",
                        !.settle = Resolved([sheets |->
                           ObjSet(<<>>, Sheet1, CsvSheet(calls[c].data))])]]
  /\ UNCHANGED <<config, maxFileSize, allowedExtensions, updates, path, disk, lenient,
                 crashed, inferVars, renderVars>>

\* the parser's 'error': reject. pipe() answers the error of its destination
\* by unpiping the read stream, which pauses it and destroys nothing: a read
\* stream that had not ended never emits 'end', and so never closes its
\* descriptor; one that had ended closes it by its autoClose
CsvError(c) ==
  /\ ~crashed /\ calls[c].pc = "streaming"
  /\ Len(calls[c].data) = Len(calls[c].parsed.records)
  /\ calls[c].parsed.err # ""
  /\ calls' = [calls EXCEPT ![c] =
       [calls[c] EXCEPT !.pc = "awaitAdapter",
                        !.handle = IF calls[c].parsed.atEnd THEN "closed" ELSE "open",
                        !.settle = Rejected(calls[c].parsed.err)]]
  /\ UNCHANGED <<config, maxFileSize, allowedExtensions, updates, path, disk, lenient,
                 crashed, inferVars, renderVars>>

\* the success path of parseFile after the adapter
ParseSucceeded(call, workbookData) ==
  [call EXCEPT !.pc = "done",
               !.result = [call.result EXCEPT !.data = workbookData,
                                              !.hasData = TRUE,
                                              !.success = TRUE]]

\* parseFile resumes after await of the adapter
AdapterResume(c) ==
  /\ ~crashed /\ calls[c].pc = "awaitAdapter"
  /\ calls' = [calls EXCEPT ![c] =
       IF calls[c].settle.ok THEN ParseSucceeded(calls[c], calls[c].settle.wb)
       ELSE ParseFailed(calls[c], calls[c].settle.cause, <<>>)]
  /\ UNCHANGED <<config, maxFileSize, allowedExtensions, updates, path, disk, lenient,
                 crashed, inferVars, renderVars>>

(***************************************************************************)
(* The mutators, and the world.                                            *)
(***************************************************************************)
\* updateConfig(newConfig): the fields newConfig gives replace the old ones
UpdateConfig ==
  /\ ~crashed /\ updates < MaxUpdates
  /\ \E newConfig \in Configs, given \in SUBSET {"safetyChecks", "readAllSheets"} :
       /\ given # {}
       /\ config' = [safetyChecks |-> IF "safetyChecks" \in given
                                        THEN newConfig.safetyChecks
                                        ELSE config.safetyChecks,
                     readAllSheets |-> IF "readAllSheets" \in given
                                         THEN newConfig.readAllSheets
                                         ELSE config.readAllSheets]
  /\ updates' = updates + 1
  /\ UNCHANGED <<maxFileSize, allowedExtensions, path, disk, lenient, crashed, calls,
                 inferVars, renderVars>>

SetMaxFileSize ==
  /\ ~crashed /\ updates < MaxUpdates
  /\ \E size \in SizeArgs : maxFileSize' = size
  /\ updates' = updates + 1
  /\ UNCHANGED <<config, allowedExtensions, path, disk, lenient, crashed, calls,
                 inferVars, renderVars>>

AddAllowedExtension ==
  /\ ~crashed /\ updates < MaxUpdates
  /\ \E ext \in ExtensionArgs :
       allowedExtensions' = allowedExtensions \cup {ToLowerCase(ext)}
  /\ updates' = updates + 1
  /\ UNCHANGED <<config, maxFileSize, path, disk, lenient, crashed, calls,
                 inferVars, renderVars>>

\* another process removes the file
Unlink ==
  /\ ~crashed /\ disk.exists
  /\ disk' = [disk EXCEPT !.exists = FALSE]
  /\ UNCHANGED <<config, maxFileSize, allowedExtensions, updates, path, lenient,
                 crashed, calls, inferVars, renderVars>>

Next ==
  \/ \E c \in Calls :
       \/ ParseStart(c) \/ ValidateResume(c) \/ GateResume(c)
       \/ StreamOpen(c) \/ StreamOpenFails(c)
       \/ CsvData(c) \/ CsvEnd(c) \/ CsvError(c)
       \/ AdapterResume(c)
  \/ UpdateConfig \/ SetMaxFileSize \/ AddAllowedExtension
  \/ Unlink

Spec == Init /\ [][Next]_vars


(***************************************************************************)
(* The claims about the gate and the pipeline (under Spec).                *)
(***************************************************************************)
IssueKinds(issues) == {issues[i].msg : i \in 1..Len(issues)}

IsHexDigest(hash) == Len(hash) = HashHexLen /\ AllIn(hash, HexDigits)

\* the report of a validateFile that ran all its checks on a file it could read
Checked(call) == call.report.made /\ call.probe.ran /\ ~call.probe.failed

\* C1: validateFile does not stop at the first failing check: a report made
\* from a readable file has the extension issue iff the extension is not
\* allowed and the size issue iff the file is over the ceiling, and for a file
\* with a disallowed extension, over the ceiling and holding '<script' in the
\* scanned prefix the report has exactly the three issues, isSafe = false and
\* a hash of 64 hex digits.
C1_AllChecksReported ==
  \A c \in Calls :
    LET call == calls[c]
    IN Checked(call) =>
         /\ call.probe.extBad <=> "Unsupported file extension" \in IssueKinds(call.report.issues)
         /\ call.probe.tooLarge <=> "File too large" \in IssueKinds(call.report.issues)
         /\ call.probe.script =>
              "Potential security risk detected" \in IssueKinds(call.report.issues)
         /\ (call.probe.extBad /\ call.probe.tooLarge /\ call.probe.script) =>
              /\ Len(call.report.issues) = 3
              /\ ~call.report.isSafe
              /\ IsHexDigest(call.report.hash)

C1_Witness ==
  \E c \in Calls :
    /\ Checked(calls[c])
    /\ calls[c].probe.extBad /\ calls[c].probe.tooLarge /\ calls[c].probe.script
    /\ Len(calls[c].report.issues) = 3

\* C2: when the gate is enabled and the report is not safe, parseFile returns
\* without calling an adapter: success = false, no data, and errors is the
\* report's issues, in order and unchanged.
C2_UnsafeRefused ==
  \A c \in Calls :
    LET call == calls[c]
    IN (call.pc = "done" /\ call.gated /\ call.report.made /\ ~call.report.isSafe) =>
         /\ call.adapter = "none"
         /\ ~call.result.success
         /\ ~call.result.hasData /\ call.result.data = NoWorkbook
         /\ call.result.errors = call.report.issues

C2_Witness ==
  \E c \in Calls :
    /\ calls[c].pc = "done" /\ calls[c].gated
    /\ calls[c].report.made /\ ~calls[c].report.isSafe
    /\ Len(calls[c].report.issues) >= 2
    /\ calls[c].result.errors = calls[c].report.issues

\* C3, as claimed: no adapter is ever started without a passing report before
\* it, whatever the configuration.
C3_ReportBeforeEveryAdapter ==
  \A c \in Calls :
    calls[c].adapter # "none" => (calls[c].report.made /\ calls[c].report.isSafe)

\* C3, amended: a call that began with safetyChecks on starts an adapter only
\* after validateFile has returned a passing report; a call that began with
\* safetyChecks off never has a report.
C3_GatedReportBeforeAdapter ==
  \A c \in Calls :
    /\ (calls[c].gated /\ calls[c].adapter # "none") =>
         (calls[c].report.made /\ calls[c].report.isSafe)
    /\ (~calls[c].gated /\ calls[c].pc # "idle") => ~calls[c].report.made

C3_Witness ==
  \E c \in Calls, d \in Calls :
    /\ calls[c].gated /\ calls[c].adapter # "none" /\ calls[c].report.isSafe
    /\ ~calls[d].gated /\ calls[d].adapter # "none"

\* C4: validateFile never throws: a missing file, or a statSync or
\* readFileSync that throws, gives a report with isSafe = false, at least one
\* issue, hash "" and fileSize 0.
C4_FailureIsAReport ==
  \A c \in Calls :
    LET call == calls[c]
    IN /\ ~call.threw
       /\ (call.probe.ran /\ call.probe.failed) =>
            /\ call.report.made
            /\ ~call.report.isSafe
            /\ Len(call.report.issues) >= 1
            /\ call.report.hash = <<>>
            /\ call.report.fileSize = 0

C4_Witness ==
  \E c \in Calls, d \in Calls :
    /\ calls[c].probe.failed /\ calls[c].report.made
    /\ "Validation error" \in IssueKinds(calls[c].report.issues)
    /\ Len(calls[c].report.issues) = 3
    /\ calls[d].probe.failed /\ calls[d].report.made
    /\ "File does not exist" \in IssueKinds(calls[d].report.issues)

\* C5: in every report validateFile returns, isSafe is true iff issues is
\* empty.
C5_SafeIffNoIssues ==
  \A c \in Calls :
    calls[c].report.made =>
      (calls[c].report.isSafe <=> Len(calls[c].report.issues) = 0)

C5_Witness ==
  \E c \in Calls, d \in Calls :
    /\ Checked(calls[c]) /\ calls[c].report.isSafe
    /\ Checked(calls[d]) /\ ~calls[d].report.isSafe /\ Len(calls[d].report.issues) = 1

\* the envelope of a call that has returned
EnvelopeOk(result) ==
  /\ ~result.success => (~result.hasData /\ result.data = NoWorkbook /\ Len(result.errors) > 0)
  /\ result.success => (result.hasData /\ Len(result.errors) = 0)

\* C6: every returned envelope has no data and some error on failure, data
\* and no error on success; and every failure of a stage after the gate is
\* caught by parseFile and becomes such an envelope, none escapes it.
C6_FailuresBecomeEnvelopes ==
  /\ \A c \in Calls : calls[c].pc = "done" => EnvelopeOk(calls[c].result)
  /\ ~crashed

\* every row of every sheet has columnCount cells
RowsMatchColumnCount(wb) ==
  \A i \in 1..Len(wb.sheets) :
    \A r \in 1..Len(wb.sheets[i].sheet.data) :
      Len(wb.sheets[i].sheet.data[r]) = wb.sheets[i].sheet.columnCount

\* C8: parseFile returns, for delimited text whose lines differ in their
\* number of fields as for any other input, a workbook whose every row has
\* columnCount cells, the short rows padded with the empty cell.
C8_ShortRowsPadded ==
  \A c \in Calls :
    LET call == calls[c]
    IN /\ call.result.hasData => RowsMatchColumnCount(call.result.data)
       /\ (call.pc = "done" /\ call.adapter \in {"csv", "tsv"}
             /\ call.parsed.err = "Invalid Record Length") =>
            (call.result.success /\ call.result.hasData)


(***************************************************************************)
(* Type inference alone: a token goes through the 'data' handler.          *)
(***************************************************************************)
\* all the texts over an alphabet, up to a length
TextsUpTo(alphabet, n) == UNION {[1..k -> alphabet] : k \in 0..n}

TokenAlphabet == {"0", "1", "-", ".", "e", "x", "t", " "}

Tokens ==
  TextsUpTo(TokenAlphabet, MaxTokenLen) \cup
  {<<"4", "2">>, <<"t", "r", "u", "e">>, <<"F", "A", "L", "S", "E">>, <<"T", "r", "u", "e">>, <<"h", "e", "l", "l", "o">>, <<"2", "0", "2", "4", "-", "0", "1", "-", "1", "5">>,
   <<"2", "0", "2", "4", "0", "1", "1", "5">>, <<"2", "0", "2", "4", "-", "1", "3", "-", "4", "5">>, <<"2", "0", "2", "4", "-", "0", "2", "-", "3", "0">>, <<"o", "n", " ", "2", "0", "2", "4", "-", "0", "1", "-", "1", "5">>,
   <<"I", "n", "f", "i", "n", "i", "t", "y">>, <<"-", "I", "n", "f", "i", "n", "i", "t", "y">>, <<"N", "a", "N">>, <<"1", "e", "9", "9", "9">>, <<"0", "x", "1", "f">>, <<"-", "1", ".", "5", "0">>,
   <<"1", "e", "-", "3">>, <<"2", "0", "2", "4">>}

InitInfer ==
  /\ token \in Tokens
  /\ lenient \in BOOLEAN
  /\ inferred = PendingCell
  /\ path = <<"a", ".", "c", "s", "v">>
  /\ disk = [exists |-> FALSE, readable |-> TRUE, bytes |-> <<>>, book |-> NoBook]
  /\ config = [safetyChecks |-> TRUE, readAllSheets |-> TRUE]
  /\ maxFileSize = DefaultMaxFileSize
  /\ allowedExtensions = DefaultAllowedExtensions
  /\ updates = 0
  /\ crashed = FALSE
  /\ calls = [c \in Calls |-> IdleCall]
  /\ sheet = NoWorkbook /\ rendered = NotRendered /\ reread = NoSettle
  /\ asked = NoRequest

\* the 'data' handler on a record of this one token
InferToken ==
  /\ inferred = PendingCell
  /\ inferred' = CsvRow(<<token>>, lenient)[1]
  /\ UNCHANGED <<token, lenient, pipelineVars, renderVars>>

NextInfer == InferToken

SpecInfer == InitInfer /\ [][NextInfer]_vars

\* the token holds a numeral, and the numeral is of a finite number
IsFiniteNumeral(value) ==
  /\ Len(Trim(value)) > 0
  /\ ~isNaN(Number(value)) /\ isFinite(Number(value))

\* the rules of the type inference, in their order
ClaimedType(value, host) ==
  IF IsFiniteNumeral(value) THEN "number"
  ELSE IF ToLowerCase(value) \in {TrueText, FalseText} THEN "boolean"
  ELSE IF MatchesDatePattern(value) /\ DateParses(value, host) THEN "date"
  ELSE "string"

\* C7: the inferred type of a token is number iff the token parses as a
\* finite real number, else boolean iff it is true or false whatever the
\* case, else date iff it holds a YYYY-MM-DD and parses as a date, else
\* string; 42 is a number, true a boolean, 2024-01-15 a date, hello a string
\* and 20240115 a number.
C7_InferenceRules ==
  inferred # PendingCell =>
    /\ inferred.type = ClaimedType(token, lenient)
    /\ token = <<"4", "2">> => inferred.type = "number"
    /\ token = <<"t", "r", "u", "e">> => inferred.type = "boolean"
    /\ token = <<"2", "0", "2", "4", "-", "0", "1", "-", "1", "5">> => inferred.type = "date"
    /\ token = <<"h", "e", "l", "l", "o">> => inferred.type = "string"
    /\ token = <<"2", "0", "2", "4", "0", "1", "1", "5">> => inferred.type = "number"

(***************************************************************************)
(* Rendering: convertToFormat with 'csv' or 'tsv', and the text read back  *)
(* by the delimited-text adapter.                                          *)
(***************************************************************************)
RECURSIVE Zeros(_)
Zeros(n) == IF n <= 0 THEN <<>> ELSE <<"0">> \o Zeros(n - 1)

\* Number::toString of the finite number m * 10^e
NumToString(m, e) ==
  LET digits == NatToStr(IF m < 0 THEN 0 - m ELSE m)
      k == Len(digits)
      n == k + e
      sign == IF m < 0 THEN <<"-">> ELSE <<>>
      x == n - 1
      expo == (IF x < 0 THEN <<"e", "-">> ELSE <<"e", "+">>)
                \o NatToStr(IF x < 0 THEN 0 - x ELSE x)
  IN IF m = 0 THEN <<"0">>
     ELSE IF k <= n /\ n <= 21 THEN sign \o digits \o Zeros(n - k)
     ELSE IF 0 < n /\ n <= 21 THEN sign \o Take(digits, n) \o <<".">> \o Drop(digits, n)
     ELSE IF -6 < n /\ n <= 0 THEN sign \o <<"0", ".">> \o Zeros(0 - n) \o digits
     ELSE IF k = 1 THEN sign \o digits \o expo
     ELSE sign \o Take(digits, 1) \o <<".">> \o Drop(digits, 1) \o expo

\* String(value), for the values the rendered sheets hold (a Date's text
\* depends on the host's time zone; these sheets hold none)
JsString(v) ==
  CASE v.k = "string" -> v.s
    [] v.k = "number" -> NumToString(v.m, v.e)
    [] v.k = "boolean" -> (IF v.m = 1 THEN TrueText ELSE FalseText)
    [] OTHER -> <<"n", "u", "l", "l">>

\* is the value falsy, so that value || '' is ''
Falsy(v) ==
  \/ v.k = "null"
  \/ v.k = "number" /\ v.m = 0
  \/ v.k = "boolean" /\ v.m = 0
  \/ v.k = "string" /\ Len(v.s) = 0

\* String(cell.value || '')
FieldText(cell) == IF Falsy(cell.value) THEN <<>> ELSE JsString(cell.value)

\* cell.replace(/"/g, '""')
RECURSIVE DoubleQuotes(_)
DoubleQuotes(s) ==
  IF Len(s) = 0 THEN <<>>
  ELSE (IF s[1] = Quote THEN <<Quote, Quote>> ELSE <<s[1]>>) \o DoubleQuotes(Drop(s, 1))

Quoted(s) == <<Quote>> \o DoubleQuotes(s) \o <<Quote>>

\* parts.join(sep)
RECURSIVE Join(_, _)
Join(parts, sep) ==
  IF Len(parts) = 0 THEN <<>>
  ELSE IF Len(parts) = 1 THEN parts[1]
  ELSE parts[1] \o sep \o Join(Drop(parts, 1), sep)

\* data.sheets[sheetName]
SheetNamed(data, sheetName) ==
  IF \E i \in 1..Len(data.sheets) : data.sheets[i].name = sheetName
    THEN [found |-> TRUE,
          sheet |-> data.sheets[CHOOSE i \in 1..Len(data.sheets) :
                                  data.sheets[i].name = sheetName].sheet]
    ELSE [found |-> FALSE, sheet |-> SheetData(<<>>, <<>>, <<>>, 0, 0)]

\* the sheet convertToCSV renders: the named one, or with no (or an empty)
\* name Object.values(data.sheets)[0]
SelectedSheet(data, sheetName) ==
  IF Len(sheetName) > 0 THEN SheetNamed(data, sheetName)
  ELSE IF Len(data.sheets) > 0 THEN [found |-> TRUE, sheet |-> data.sheets[1].sheet]
  ELSE [found |-> FALSE, sheet |-> SheetData(<<>>, <<>>, <<>>, 0, 0)]

\* the text convertToCSV joins from the rows of a sheet
RowsToCsv(rows, delimiter) ==
  Join([r \in 1..Len(rows) |->
          Join([j \in 1..Len(rows[r]) |-> Quoted(FieldText(rows[r][j]))], <<delimiter>>)],
       <<NewLine>>)

convertToCSV(data, sheetName, delimiter) ==
  LET sel == SelectedSheet(data, sheetName)
  IN IF ~sel.found
       THEN [done |-> TRUE, ok |-> FALSE, text |-> <<>>, delimiter |-> delimiter,
             err |-> "No sheet data available", named |-> <<>>, sheetName |-> sheetName]
       ELSE [done |-> TRUE, ok |-> TRUE, text |-> RowsToCsv(sel.sheet.data, delimiter),
             delimiter |-> delimiter, err |-> "", named |-> <<>>, sheetName |-> sheetName]

\* the sheets that are rendered: a grid of cells, as a sheet named Sheet1
CellAlphabet == {"a", "5", ",", "\"", " ", "\n"}

RenderCells ==
  {Cell(StrVal(s), "string") : s \in TextsUpTo(CellAlphabet, MaxCellLen)}
    \cup {EmptyCell, Cell(IntVal(0), "number"), Cell(IntVal(5), "number"),
          Cell(BoolVal(TRUE), "boolean"), Cell(BoolVal(FALSE), "boolean")}

Grids ==
  {<<<<a>>>> : a \in RenderCells}
    \cup {<<<<a, b>>>> : a \in RenderCells, b \in RenderCells}
    \cup {<<<<a>>, <<b>>>> : a \in RenderCells, b \in RenderCells}

GridSheet(grid) ==
  SheetData(Sheet1, grid,
            <<"A", "1", ":">> \o encode_cell(Len(grid) - 1, Len(grid[1]) - 1),
            Len(grid), Len(grid[1]))

SheetNameArgs == {<<>>, Sheet1, <<"O", "t", "h", "e", "r">>, <<"Q">>, <<"2">>}

\* the workbook is a grid as a sheet named Sheet1, or has no sheet at all, or
\* is what the binary-workbook adapter made of a container (disk.book)
InitRender ==
  /\ \/ /\ disk = [exists |-> FALSE, readable |-> TRUE, bytes |-> <<>>, book |-> NoBook]
        /\ \/ \E grid \in Grids :
                sheet = [sheets |-> ObjSet(<<>>, Sheet1, GridSheet(grid))]
           \/ sheet = NoWorkbook
     \/ /\ \E book \in {OneSheetBook, ManySheetBook} :
             disk = [exists |-> TRUE, readable |-> TRUE, bytes |-> <<"P", "K">>,
                     book |-> book]
        /\ sheet = parseExcelFile(disk, TRUE).wb
  /\ rendered = NotRendered
  /\ asked = NoRequest
  /\ reread = NoSettle
  /\ lenient = FALSE
  /\ token = <<>> /\ inferred = PendingCell
  /\ path = <<"a", ".", "c", "s", "v">>
  /\ config = [safetyChecks |-> TRUE, readAllSheets |-> TRUE]
  /\ maxFileSize = DefaultMaxFileSize
  /\ allowedExtensions = DefaultAllowedExtensions
  /\ updates = 0
  /\ crashed = FALSE
  /\ calls = [c \in Calls |-> IdleCall]

\* convertToFormat(data, 'csv' | 'tsv', {sheetName})
RenderCsv ==
  /\ ~rendered.done
  /\ \E delimiter \in {Comma, Tab}, sheetName \in SheetNameArgs :
       rendered' = convertToCSV(sheet, sheetName, delimiter)
  /\ UNCHANGED <<sheet, reread, asked, lenient, pipelineVars, inferVars>>

\* the delimited-text adapter on the rendered text: the parser's records
\* through the 'data' handler, then 'end' or 'error'
Reingest(text, delimiter, host) ==
  LET parsed == csvParse(text, delimiter)
  IN IF parsed.err # "" THEN Rejected(parsed.err)
     ELSE Resolved([sheets |->
            ObjSet(<<>>, Sheet1,
                   CsvSheet([r \in 1..Len(parsed.records) |->
                               CsvRow(parsed.records[r], host)]))])

ReadBack ==
  /\ rendered.done /\ rendered.ok
  /\ reread = NoSettle
  /\ reread' = Reingest(rendered.text, rendered.delimiter, lenient)
  /\ UNCHANGED <<sheet, rendered, asked, lenient, pipelineVars, inferVars>>

NextRender == RenderCsv \/ ReadBack

SpecRender == InitRender /\ [][NextRender]_vars

\* the rendering as claimed: null is the empty text, every other value its
\* string form
ClaimedField(cell) == IF cell.value.k = "null" THEN <<>> ELSE JsString(cell.value)

ClaimedCsv(rows, delimiter) ==
  Join([r \in 1..Len(rows) |->
          Join([j \in 1..Len(rows[r]) |-> Quoted(ClaimedField(rows[r][j]))], <<delimiter>>)],
       <<NewLine>>)

\* C9: the CSV/TSV text of the selected sheet is its rows joined by one
\* newline with none trailing, each row its fields joined by the delimiter,
\* each field in double quotes with the inner double quotes doubled, the
\* field of null empty and the field of any other value, 0 and false
\* included, its string form.
C9_EveryValueStringified ==
  (rendered.done /\ rendered.ok) =>
    rendered.text =
      ClaimedCsv(SelectedSheet(sheet, rendered.sheetName).sheet.data, rendered.delimiter)

AllStrings(rows) ==
  \A r \in 1..Len(rows) : \A j \in 1..Len(rows[r]) :
    rows[r][j].type = "string" /\ rows[r][j].value.k = "string"

\* C10: a sheet of string cells, rendered to CSV and read back by the
\* delimited-text adapter, gives a sheet with the same string values at the
\* same places.
C10_StringsRoundTrip ==
  LET rows == SelectedSheet(sheet, rendered.sheetName).sheet.data
  IN (rendered.ok /\ rendered.delimiter = Comma /\ reread # NoSettle /\ AllStrings(rows)) =>
       /\ reread.ok
       /\ LET back == reread.wb.sheets[1].sheet.data
          IN /\ Len(back) = Len(rows)
             /\ \A r \in 1..Len(rows) :
                  /\ Len(back[r]) = Len(rows[r])
                  /\ \A j \in 1..Len(rows[r]) : back[r][j].value = rows[r][j].value


(***************************************************************************)
(* convertToFormat(data, 'json'): JSON.stringify(data, null, 2), and the   *)
(* text parsed back with JSON.parse.  The document keeps the objects and   *)
(* arrays of the workbook as they are and holds each cell value as the     *)
(* JSON text of its scalar.                                                *)
(***************************************************************************)
\* Date.prototype.toISOString of the Date of a date-only text (UTC midnight)
toISOString(s) == s \o <<"T", "0", "0", ":", "0", "0", ":", "0", "0", ".", "0", "0", "0", "Z">>

\* the JSON text of a string: quotes, with the escapes of QuoteJSONString
RECURSIVE JsonEscape(_)
JsonEscape(s) ==
  IF Len(s) = 0 THEN <<>>
  ELSE (CASE s[1] = Quote -> <<"\\", Quote>>
          [] s[1] = "\\" -> <<"\\", "\\">>
          [] s[1] = NewLine -> <<"\\", "n">>
          [] OTHER -> <<s[1]>>) \o JsonEscape(Drop(s, 1))

\* JsonScalar wrongly writing null as the empty string
JsonScalarNullAsText(v) ==
  CASE v.k = "null" -> <<Quote, Quote>>
    [] v.k = "number" -> NumToString(v.m, v.e)
    [] v.k = "boolean" -> (IF v.m = 1 THEN TrueText ELSE FalseText)
    [] v.k = "date" -> <<Quote>> \o JsonEscape(toISOString(v.s)) \o <<Quote>>
    [] OTHER -> <<Quote>> \o JsonEscape(v.s) \o <<Quote>>

\* the JSON text of a cell value: a Date through its toJSON
JsonScalar(v) ==
  CASE v.k = "null" -> <<"n", "u", "l", "l">>
    [] v.k = "number" -> NumToString(v.m, v.e)
    [] v.k = "boolean" -> (IF v.m = 1 THEN TrueText ELSE FalseText)
    [] v.k = "date" -> <<Quote>> \o JsonEscape(toISOString(v.s)) \o <<Quote>>
    [] OTHER -> <<Quote>> \o JsonEscape(v.s) \o <<Quote>>

\* the characters of a JSON string's body
RECURSIVE JsonUnescape(_)
JsonUnescape(s) ==
  IF Len(s) = 0 THEN <<>>
  ELSE IF s[1] = "\\" /\ Len(s) >= 2
    THEN <<(IF s[2] = "n" THEN NewLine ELSE s[2])>> \o JsonUnescape(Drop(s, 2))
  ELSE <<s[1]>> \o JsonUnescape(Drop(s, 1))

\* JSON.parse of a scalar's text: a string stays a string
JsonParseScalar(text) ==
  IF Len(text) >= 2 /\ text[1] = Quote
    THEN StrVal(JsonUnescape(SubSeq(text, 2, Len(text) - 1)))
  ELSE IF text = <<"n", "u", "l", "l">> THEN NullVal
  ELSE IF text = TrueText THEN BoolVal(TRUE)
  ELSE IF text = FalseText THEN BoolVal(FALSE)
  ELSE NumVal(Number(text))

\* the workbook, every cell value written as its JSON text (how = "text") or
\* read from it (how = "value")
MapValues(data, how) ==
  [sheets |->
     [i \in 1..Len(data.sheets) |->
        [name |-> data.sheets[i].name,
         sheet |-> [data.sheets[i].sheet EXCEPT !.data =
                      [r \in 1..Len(@) |->
                         [j \in 1..Len(@[r]) |->
                            [value |-> IF how = "text"
                                         THEN JsonScalar(@[r][j].value)
                                         ELSE JsonParseScalar(@[r][j].value),
                             type |-> @[r][j].type]]]]]]]

JsonStringify(data) ==
  [done |-> TRUE, ok |-> TRUE, text |-> MapValues(data, "text"), delimiter |-> "",
   err |-> "", named |-> <<>>, sheetName |-> <<>>]

JsonParse(document) == MapValues(document, "value")

\* the workbooks that are serialized: ingested delimited text, decoded
\* containers, and one-row sheets of scalars
JsonTexts ==
  {<<"1", ",", "t", "r", "u", "e", "\n", "2", "0", "2", "4", "-", "0", "1", "-", "0", "1", ",", "h", "e", "l", "l", "o">>, <<"a", ",", "b", "\n", "c", ",", "d">>, <<"\"", "a", "\"", "\"", "b", "\"", ",", "-", "1", ".", "5">>, <<>>}

JsonCells ==
  {Cell(StrVal(s), "string") : s \in TextsUpTo({"a", "\"", "\\", "\n"}, MaxCellLen)}
    \cup {EmptyCell, Cell(IntVal(0), "number"), Cell(IntVal(-15), "number"),
          Cell(BoolVal(TRUE), "boolean"), Cell(BoolVal(FALSE), "boolean"),
          Cell(DateVal(<<"2", "0", "2", "4", "-", "0", "1", "-", "0", "1">>), "date")}

JsonBooks ==
  {Reingest(text, Comma, FALSE).wb : text \in JsonTexts}
    \cup {parseExcelFile([exists |-> TRUE, readable |-> TRUE, bytes |-> <<>>, book |-> b],
                         TRUE).wb : b \in {OneSheetBook, ManySheetBook}}
    \cup {[sheets |-> ObjSet(<<>>, Sheet1, GridSheet(<<<<a>>>>))] : a \in JsonCells}
    \cup {[sheets |-> ObjSet(<<>>, Sheet1, GridSheet(<<<<a, b>>>>))] :
            a \in JsonCells, b \in JsonCells}

InitJson ==
  /\ sheet \in JsonBooks
  /\ rendered = NotRendered
  /\ asked = NoRequest
  /\ reread = NoSettle
  /\ lenient = FALSE
  /\ token = <<>> /\ inferred = PendingCell
  /\ path = <<"a", ".", "c", "s", "v">>
  /\ disk = [exists |-> FALSE, readable |-> TRUE, bytes |-> <<>>, book |-> NoBook]
  /\ config = [safetyChecks |-> TRUE, readAllSheets |-> TRUE]
  /\ maxFileSize = DefaultMaxFileSize
  /\ allowedExtensions = DefaultAllowedExtensions
  /\ updates = 0
  /\ crashed = FALSE
  /\ calls = [c \in Calls |-> IdleCall]

\* convertToFormat(data, 'json')
RenderJson ==
  /\ ~rendered.done
  /\ rendered' = JsonStringify(sheet)
  /\ UNCHANGED <<sheet, reread, asked, lenient, pipelineVars, inferVars>>

\* JSON.parse of the rendered text
ParseJson ==
  /\ rendered.done /\ rendered.ok
  /\ reread = NoSettle
  /\ reread' = Resolved(JsonParse(rendered.text))
  /\ UNCHANGED <<sheet, rendered, asked, lenient, pipelineVars, inferVars>>

NextJson == RenderJson \/ ParseJson

SpecJson == InitJson /\ [][NextJson]_vars

\* the workbook of the end-to-end scenario
ScenarioBook == Reingest(<<"1", ",", "t", "r", "u", "e", "\n", "2", "0", "2", "4", "-", "0", "1", "-", "0", "1", ",", "h", "e", "l", "l", "o">>, Comma, FALSE).wb

\* C11 (as stated): the workbook ingested from 1,true / 2024-01-01,hello,
\* serialized to JSON and parsed back, has its four cells with the same
\* values and type tags, the date cell still a date; and a null value of any
\* workbook comes back as null.
C11_JsonRoundTripExact ==
  reread # NoSettle =>
    /\ sheet = ScenarioBook => reread.wb = sheet
    /\ \A i \in 1..Len(sheet.sheets) :
         LET rows == sheet.sheets[i].sheet.data
             back == reread.wb.sheets[i].sheet.data
         IN \A r \in 1..Len(rows) : \A j \in 1..Len(rows[r]) :
              rows[r][j].value = NullVal => back[r][j].value = NullVal

\* what comes back for a cell value: a date as the string of its ISO form
ParsedBack(v) == IF v.k = "date" THEN StrVal(toISOString(v.s)) ELSE v

\* the workbook with every cell value as it comes back
ExpectedBack(data) ==
  [sheets |->
     [i \in 1..Len(data.sheets) |->
        [name |-> data.sheets[i].name,
         sheet |-> [data.sheets[i].sheet EXCEPT !.data =
                      [r \in 1..Len(@) |->
                         [j \in 1..Len(@[r]) |->
                            [value |-> ParsedBack(@[r][j].value),
                             type |-> @[r][j].type]]]]]]]

\* C11 (amended): serialized to JSON and parsed back, every workbook keeps its
\* sheets, their names, ranges and counts and every type tag; every number,
\* boolean, string and null value comes back the same, and a date value comes
\* back as the string of its ISO-8601 form (2024-01-01T00:00:00.000Z for the
\* date of 2024-01-01), not as a date.
C11_JsonRoundTripDatesAsText ==
  reread # NoSettle => reread.wb = ExpectedBack(sheet)

C11_Witness ==
  /\ sheet = ScenarioBook
  /\ reread.ok
  /\ reread.wb.sheets[1].sheet.data[2][1] =
       Cell(StrVal(<<"2", "0", "2", "4", "-", "0", "1", "-", "0", "1", "T", "0", "0", ":", "0", "0", ":", "0", "0", ".", "0", "0", "0", "Z">>), "date")
  /\ reread.wb.sheets[1].sheet.data[1][1] = Cell(IntVal(1), "number")


(***************************************************************************)
(* Which sheet the CSV/TSV rendering takes (under SpecRender).             *)
(***************************************************************************)
\* the sheet names in the order the source declares them
DeclaredNames ==
  IF disk.book.ok THEN disk.book.SheetNames
  ELSE [i \in 1..Len(sheet.sheets) |-> sheet.sheets[i].name]

\* C12: the CSV/TSV rendering is of exactly one sheet, the one named by
\* options.sheetName when a name is given, else the first sheet the source
\* declares, whatever the names of the sheets; with no sheet in the workbook,
\* or no sheet of the requested name, it fails with 'No sheet data
\* available' and renders no other sheet.
C12_NamedOrFirstDeclared ==
  rendered.done =>
    LET wanted == IF Len(rendered.sheetName) > 0 THEN <<rendered.sheetName>>
                  ELSE IF Len(DeclaredNames) > 0 THEN <<DeclaredNames[1]>>
                  ELSE <<>>
    IN IF Len(wanted) = 1 /\ SheetNamed(sheet, wanted[1]).found
         THEN /\ rendered.ok
              /\ rendered.text =
                   RowsToCsv(SheetNamed(sheet, wanted[1]).sheet.data, rendered.delimiter)
         ELSE ~rendered.ok /\ rendered.err = "No sheet data available"


(***************************************************************************)
(* convertToFormat(data, 'markdown'): ExcelParser.convertToMarkdown.       *)
(***************************************************************************)
maxRows == 20
TruncateAt == 50

\* value.slice(0, 50) + '...' of a longer value, then the pipes escaped and
\* the newlines made spaces
RECURSIVE EscapeCell(_)
EscapeCell(s) ==
  IF Len(s) = 0 THEN <<>>
  ELSE (CASE s[1] = "|" -> <<"\\", "|">>
          [] s[1] = NewLine -> <<" ">>
          [] OTHER -> <<s[1]>>) \o EscapeCell(Drop(s, 1))

Truncated(value) ==
  IF Len(value) > TruncateAt THEN Take(value, TruncateAt) \o <<".", ".", ".">> ELSE value

\* the text of the cell at column i of a row (no cell there, or a null
\* value: the empty text)
MarkdownValue(row, i) ==
  IF i > Len(row) \/ row[i].value.k = "null" THEN <<>>
  ELSE EscapeCell(Truncated(JsString(row[i].value)))

\* RowValues wrongly stopping at the end of the row
RowValuesUnpadded(row, columnCount) == [i \in 1..Len(row) |-> MarkdownValue(row, i)]

\* Array.from({length: columnCount}, ...) over a row
RowValues(row, columnCount) == [i \in 1..columnCount |-> MarkdownValue(row, i)]

\* `| ${cells.join(' | ')} |\n`
TableLine(cells) == <<"|", " ">> \o Join(cells, <<" ", "|", " ">>) \o <<" ", "|", "\n">>

\* displayData wrongly holding every row
displayDataAll(data) == data

\* sheet.data.slice(0, maxRows)
displayData(data) == Take(data, IF Len(data) < maxRows THEN Len(data) ELSE maxRows)

\* Math.max(...numbers), of at least one number
RECURSIVE MaxOf(_)
MaxOf(numbers) ==
  IF Len(numbers) = 1 THEN numbers[1] ELSE Max(numbers[1], MaxOf(Drop(numbers, 1)))

\* numbers.reduce((sum, n) => sum + n, 0)
RECURSIVE Sum(_)
Sum(numbers) == IF Len(numbers) = 0 THEN 0 ELSE numbers[1] + Sum(Drop(numbers, 1))

MaxWidth(rows) == MaxOf([r \in 1..Len(rows) |-> Len(rows[r])])

RECURSIVE Concat(_)
Concat(parts) == IF Len(parts) = 0 THEN <<>> ELSE parts[1] \o Concat(Drop(parts, 1))

\* the header, the separator and the rows of the displayed data
MarkdownTable(shown) ==
  LET columnCount == MaxWidth(shown)
      headers == [i \in 1..columnCount |-> <<"C", "o", "l", "u", "m", "n", " ">> \o NatToStr(i)]
  IN TableLine(headers)
       \o TableLine([i \in 1..columnCount |-> <<"-", "-", "-">>])
       \o Concat([r \in 1..Len(shown) |-> TableLine(RowValues(shown[r], columnCount))])

\* what the loop body appends for one sheet name (counts below a thousand:
\* toLocaleString groups no digits)
SheetBlock(data, currentSheetName, several) ==
  LET sel == SheetNamed(data, currentSheetName)
      rows == sel.sheet.data
  IN IF ~sel.found THEN <<>>
     ELSE (IF several THEN <<"#", "#", "#", " ", "S", "h", "e", "e", "t", ":", " ">> \o currentSheetName \o <<"\n", "\n">> ELSE <<>>)
          \o (IF Len(rows) = 0 THEN <<"*", "N", "o", " ", "d", "a", "t", "a", " ", "i", "n", " ", "t", "h", "i", "s", " ", "s", "h", "e", "e", "t", "*", "\n", "\n">>
              ELSE (IF Len(rows) > maxRows
                      THEN <<"*", "S", "h", "o", "w", "i", "n", "g", " ", "f", "i", "r", "s", "t", " ">> \o NatToStr(maxRows) \o <<" ", "r", "o", "w", "s", " ", "o", "f", " ">>
                             \o NatToStr(Len(rows)) \o <<" ", "t", "o", "t", "a", "l", " ", "r", "o", "w", "s", "*", "\n", "\n">>
                      ELSE <<>>)
                   \o MarkdownTable(displayData(rows))
                   \o <<NewLine>>)

\* the metadata block of a workbook that has metadata (with none of the
\* author, created and modified fields)
MetadataBlock(data) ==
  LET names == [i \in 1..Len(data.sheets) |-> data.sheets[i].name]
      totalSheets == Len(names)
      totalRows == Sum([i \in 1..totalSheets |-> data.sheets[i].sheet.rowCount])
  IN <<"-", " ", "*", "*", "F", "i", "l", "e", " ", "S", "i", "z", "e", ":", "*", "*", " ", "U", "n", "k", "n", "o", "w", "n", "\n">>
       \o <<"-", " ", "*", "*", "S", "h", "e", "e", "t", "s", ":", "*", "*", " ">> \o NatToStr(totalSheets) \o <<" ", "(">>
       \o Join(Take(names, IF totalSheets < 3 THEN totalSheets ELSE 3), <<",", " ">>)
       \o (IF totalSheets > 3 THEN <<",", " ", ".", ".", ".">> ELSE <<>>) \o <<")", "\n">>
       \o <<"-", " ", "*", "*", "T", "o", "t", "a", "l", " ", "R", "o", "w", "s", ":", "*", "*", " ">> \o NatToStr(totalRows) \o <<NewLine>>
       \o <<"-", " ", "*", "*", "T", "o", "t", "a", "l", " ", "C", "o", "l", "u", "m", "n", "s", ":", "*", "*", " ">>
       \o (IF totalSheets = 0 THEN <<"-", "I", "n", "f", "i", "n", "i", "t", "y">>
           ELSE IntToStr(MaxOf([i \in 1..totalSheets |-> data.sheets[i].sheet.columnCount])))
       \o <<NewLine>>
       \o <<"-", " ", "*", "*", "F", "o", "r", "m", "a", "t", ":", "*", "*", " ", "X", "L", "S", "X", "\n">>

\* timestamp: new Date().toISOString().slice(0, 19).replace('T', ' ')
convertToMarkdown(data, sheetName, timestamp, hasMetadata) ==
  LET sheets == IF Len(sheetName) > 0 THEN <<sheetName>>
                ELSE [i \in 1..Len(data.sheets) |-> data.sheets[i].name]
      sourceFilename == IF Len(sheetName) > 0 THEN sheetName ELSE <<"s", "p", "r", "e", "a", "d", "s", "h", "e", "e", "t", ".", "x", "l", "s", "x">>
  IN [done |-> TRUE, ok |-> TRUE,
      text |-> <<"#", " ", "E", "x", "c", "e", "l", " ", "A", "n", "a", "l", "y", "s", "i", "s", ":", " ">> \o sourceFilename \o <<NewLine>>
                 \o <<"*", "G", "e", "n", "e", "r", "a", "t", "e", "d", " ", "o", "n", ":", " ">> \o timestamp \o <<"*", "\n", "\n">>
                 \o <<"#", "#", " ", "M", "e", "t", "a", "d", "a", "t", "a", "\n">>
                 \o (IF hasMetadata THEN MetadataBlock(data) ELSE <<>>)
                 \o <<NewLine>>
                 \o <<"#", "#", " ", "C", "o", "n", "t", "e", "n", "t", "\n", "\n">>
                 \o Concat([i \in 1..Len(sheets) |->
                              SheetBlock(data, sheets[i], Len(sheets) > 1)])
                 \o <<"-", "-", "-", "\n">>
                 \o <<"*", "G", "e", "n", "e", "r", "a", "t", "e", "d", " ", "b", "y", " ", "F", "S", "S", " ", "P", "a", "r", "s", "e", " ", "E", "x", "c", "e", "l", " ", "v", "1", ".", "0", ".", "0", "*", "\n">>,
      delimiter |-> "", err |-> "", named |-> <<>>, sheetName |-> sheetName]

\* the sheets that are rendered: rows 1..n, the row i starting with the
\* number i, of one of four shapes; sheets of cells that need escaping or
\* truncating; and decoded workbooks
MaxSheetRows == 25

ShapedRow(shape, i, n) ==
  LET first == Cell(IntVal(i), "number")
      a == Cell(StrVal(<<"a">>), "string")
  IN CASE shape = "narrow" -> <<first>>
       [] shape = "wide" -> <<first, a>>
       [] shape = "ragged" -> [j \in 1..(1 + (i % 3)) |-> IF j = 1 THEN first ELSE a]
       [] OTHER -> IF i = n THEN <<first, a, a>> ELSE <<first>>

RowShapes == {"narrow", "wide", "ragged", "lastWide"}

TallGrids ==
  {[i \in 1..n |-> ShapedRow(shape, i, n)] : n \in 0..MaxSheetRows, shape \in RowShapes}

LongText == [i \in 1..(TruncateAt + 1) |-> "x"]

OddGrids ==
  {<<<<Cell(IntVal(1), "number"), Cell(StrVal(<<"a", "|", "b">>), "string")>>,
     <<Cell(IntVal(2), "number"), EmptyCell, Cell(StrVal(<<"a", "\n", "b">>), "string")>>,
     <<Cell(IntVal(0), "number"), Cell(BoolVal(FALSE), "boolean")>>>>,
   <<<<Cell(IntVal(1), "number"), Cell(StrVal(LongText), "string")>>,
     <<Cell(IntVal(2), "number")>>>>}

\* a sheet named Sheet1 of the rows (its range and counts those of a grid as
\* wide as the first row)
RowsSheet(rows) ==
  SheetData(Sheet1, rows,
            <<"A", "1", ":">>
              \o encode_cell(Len(rows) - 1, IF Len(rows) = 0 THEN 0 ELSE Len(rows[1]) - 1),
            Len(rows), IF Len(rows) = 0 THEN 0 ELSE Len(rows[1]))

MarkdownBooks ==
  {[sheets |-> ObjSet(<<>>, Sheet1, RowsSheet(rows))] : rows \in TallGrids \cup OddGrids}
    \cup {NoWorkbook}
    \cup {parseExcelFile([exists |-> TRUE, readable |-> TRUE, bytes |-> <<>>, book |-> b],
                         TRUE).wb : b \in {OneSheetBook, ManySheetBook}}

Timestamps == {<<"2", "0", "2", "4", "-", "0", "1", "-", "0", "1", " ", "0", "0", ":", "0", "0", ":", "0", "0">>}

InitMarkdown ==
  /\ sheet \in MarkdownBooks
  /\ rendered = NotRendered
  /\ asked = NoRequest
  /\ reread = NoSettle
  /\ lenient = FALSE
  /\ token = <<>> /\ inferred = PendingCell
  /\ path = <<"a", ".", "c", "s", "v">>
  /\ disk = [exists |-> FALSE, readable |-> TRUE, bytes |-> <<>>, book |-> NoBook]
  /\ config = [safetyChecks |-> TRUE, readAllSheets |-> TRUE]
  /\ maxFileSize = DefaultMaxFileSize
  /\ allowedExtensions = DefaultAllowedExtensions
  /\ updates = 0
  /\ crashed = FALSE
  /\ calls = [c \in Calls |-> IdleCall]

\* convertToFormat(data, 'markdown', {sheetName}), at some time of the clock,
\* of a workbook with or without metadata
RenderMarkdown ==
  /\ ~rendered.done
  /\ \E sheetName \in SheetNameArgs, timestamp \in Timestamps, hasMetadata \in BOOLEAN :
       rendered' = convertToMarkdown(sheet, sheetName, timestamp, hasMetadata)
  /\ UNCHANGED <<sheet, reread, asked, lenient, pipelineVars, inferVars>>

NextMarkdown == RenderMarkdown

SpecMarkdown == InitMarkdown /\ [][NextMarkdown]_vars


(***************************************************************************)
(* The claims about the Markdown rendering (under SpecMarkdown).           *)
(***************************************************************************)
\* the parts of s between the occurrences of sep
SplitOn(s, sep) ==
  LET starts == {i \in 1..(Len(s) - Len(sep) + 1) : SubSeq(s, i, i + Len(sep) - 1) = sep}
      n == Cardinality(starts)
      Nth(k) == CHOOSE i \in starts : Cardinality({j \in starts : j < i}) = k - 1
  IN [k \in 1..(n + 1) |->
        SubSeq(s, IF k = 1 THEN 1 ELSE Nth(k - 1) + Len(sep),
                  IF k = n + 1 THEN Len(s) ELSE Nth(k) - 1)]

\* the lines of the table of a rendered text
IsTableLine(line) == Len(line) > 0 /\ line[1] = "|"
TableLines(text) == SelectSeq(SplitOn(text, <<NewLine>>), IsTableLine)

\* the cells of a table line: what stands between its unescaped pipes
TableCells(line) == SplitOn(SubSeq(line, 3, Len(line) - 2), <<" ", "|", " ">>)

IsNotice(line) == Includes(line, <<"t", "o", "t", "a", "l", " ", "r", "o", "w", "s">>)
Notices(text) == SelectSeq(SplitOn(text, <<NewLine>>), IsNotice)

\* the rendering is of one sheet: the named one, or the only one
RenderedAlone ==
  /\ rendered.done
  /\ IF Len(rendered.sheetName) > 0 THEN SheetNamed(sheet, rendered.sheetName).found
     ELSE Len(sheet.sheets) = 1

RenderedRows == SelectedSheet(sheet, rendered.sheetName).sheet.data

\* C13: of a sheet with more than 20 rows the Markdown shows the first 20
\* rows as table rows, in their order, and a notice with the total ('25 total
\* rows' for 25 rows); of a sheet with at most 20 rows it shows every row and
\* no notice.
C13_FirstTwentyRows ==
  (RenderedAlone /\ Len(RenderedRows) > 0) =>
    LET rows == RenderedRows
        lines == TableLines(rendered.text)
        shown == IF Len(rows) > 20 THEN 20 ELSE Len(rows)
    IN /\ Len(lines) = shown + 2
       /\ \A i \in 1..shown : TableCells(lines[i + 2])[1] = MarkdownValue(rows[i], 1)
       /\ IF Len(rows) > 20
            THEN /\ Len(Notices(rendered.text)) = 1
                 /\ Includes(Notices(rendered.text)[1],
                             NatToStr(Len(rows)) \o <<" ", "t", "o", "t", "a", "l", " ", "r", "o", "w", "s">>)
            ELSE Notices(rendered.text) = <<>>

C13_Witness ==
  /\ RenderedAlone /\ Len(RenderedRows) = 25
  /\ Len(TableLines(rendered.text)) = 22
  /\ Includes(rendered.text, <<"2", "5", " ", "t", "o", "t", "a", "l", " ", "r", "o", "w", "s">>)
  /\ TableCells(TableLines(rendered.text)[22])[1] = <<"2", "0">>

\* C19: for a sheet with rows, the header is Column 1 .. Column N, N the
\* greatest width of the displayed rows (the first 20 at most), and the
\* separator and every data row have N cells, the cells past the end of a
\* shorter row empty.
C19_TableIsRectangular ==
  (RenderedAlone /\ Len(RenderedRows) > 0) =>
    LET rows == RenderedRows
        lines == TableLines(rendered.text)
        shown == IF Len(rows) > 20 THEN 20 ELSE Len(rows)
        N == MaxOf([i \in 1..shown |-> Len(rows[i])])
    IN /\ Len(lines) >= 2
       /\ TableCells(lines[1]) = [j \in 1..N |-> <<"C", "o", "l", "u", "m", "n", " ">> \o NatToStr(j)]
       /\ TableCells(lines[2]) = [j \in 1..N |-> <<"-", "-", "-">>]
       /\ \A i \in 3..Len(lines) :
            /\ Len(TableCells(lines[i])) = N
            /\ i - 2 <= Len(rows) =>
                 \A j \in (Len(rows[i - 2]) + 1)..N : TableCells(lines[i])[j] = <<>>

C19_Witness ==
  /\ RenderedAlone /\ Len(RenderedRows) = 25
  /\ Len(RenderedRows[25]) = 2 /\ Len(RenderedRows[2]) = 3 /\ Len(RenderedRows[1]) = 2
  /\ TableCells(TableLines(rendered.text)[1]) =
       <<<<"C", "o", "l", "u", "m", "n", " ", "1">>, <<"C", "o", "l", "u", "m", "n", " ", "2">>, <<"C", "o", "l", "u", "m", "n", " ", "3">>>>
  /\ TableCells(TableLines(rendered.text)[3]) = <<<<"1">>, <<"a">>, <<>>>>


(***************************************************************************)
(* convertToFormat and writeToFile, for any format string.                 *)
(***************************************************************************)
Failed(err, named) ==
  [done |-> TRUE, ok |-> FALSE, text |-> <<>>, delimiter |-> "", err |-> err,
   named |-> named, sheetName |-> <<>>]

\* yaml.dump(data) returns (its text is not modelled)
YamlDump(data) ==
  [done |-> TRUE, ok |-> TRUE, text |-> <<>>, delimiter |-> "", err |-> "",
   named |-> <<>>, sheetName |-> <<>>]

\* new Error(`Unsupported output format: ${format}`)
Unsupported(format) == Failed("Unsupported output format", format)

convertToFormat(data, format, sheetName, timestamp, hasMetadata) ==
  LET lower == ToLowerCase(format)
  IN CASE lower = <<"j", "s", "o", "n">> -> JsonStringify(data)
       [] lower = <<"c", "s", "v">> -> convertToCSV(data, sheetName, Comma)
       [] lower = <<"t", "s", "v">> -> convertToCSV(data, sheetName, Tab)
       [] lower = <<"y", "a", "m", "l">> -> YamlDump(data)
       [] lower = <<"m", "a", "r", "k", "d", "o", "w", "n">> -> convertToMarkdown(data, sheetName, timestamp, hasMetadata)
       [] OTHER -> Unsupported(format)

\* writeExcelFile: the codec refuses to write a workbook without sheets
writeExcelFile(data) ==
  IF Len(data.sheets) = 0 THEN Failed("Workbook is empty", <<>>)
  ELSE [done |-> TRUE, ok |-> TRUE, text |-> <<"P", "K">>, delimiter |-> "", err |-> "",
        named |-> <<>>, sheetName |-> <<>>]

\* writeToFile: what is written, or the error it throws
writeToFile(data, format, timestamp, hasMetadata) ==
  LET extension == ToLowerCase(format)
  IN IF extension = <<"x", "l", "s", "x">> THEN writeExcelFile(data)
     ELSE IF extension \in {<<"c", "s", "v">>, <<"t", "s", "v">>, <<"j", "s", "o", "n">>, <<"y", "a", "m", "l">>, <<"m", "a", "r", "k", "d", "o", "w", "n">>}
       THEN convertToFormat(data, extension, <<>>, timestamp, hasMetadata)
     ELSE Unsupported(extension)

Formats ==
  {<<"j", "s", "o", "n">>, <<"J", "S", "O", "N">>, <<"Y", "a", "m", "l">>, <<"c", "s", "v">>, <<"T", "S", "V">>, <<"m", "a", "r", "k", "d", "o", "w", "n">>, <<"M", "a", "r", "k", "d", "o", "w", "n">>,
   <<"x", "l", "s", "x">>, <<"X", "L", "S", "X">>, <<"p", "d", "f">>, <<"P", "D", "F">>, <<"X", "m", "l">>, <<>>}

FormatBooks ==
  {[sheets |-> ObjSet(<<>>, Sheet1, GridSheet(<<<<a>>>>))] :
     a \in {EmptyCell, Cell(IntVal(5), "number"), Cell(StrVal(<<"a">>), "string")}}
    \cup {NoWorkbook}
    \cup {parseExcelFile([exists |-> TRUE, readable |-> TRUE, bytes |-> <<>>, book |-> b],
                         TRUE).wb : b \in {OneSheetBook, ManySheetBook}}

InitFormat ==
  /\ sheet \in FormatBooks
  /\ rendered = NotRendered
  /\ asked = NoRequest
  /\ reread = NoSettle
  /\ lenient = FALSE
  /\ token = <<>> /\ inferred = PendingCell
  /\ path = <<"a", ".", "c", "s", "v">>
  /\ disk = [exists |-> FALSE, readable |-> TRUE, bytes |-> <<>>, book |-> NoBook]
  /\ config = [safetyChecks |-> TRUE, readAllSheets |-> TRUE]
  /\ maxFileSize = DefaultMaxFileSize
  /\ allowedExtensions = DefaultAllowedExtensions
  /\ updates = 0
  /\ crashed = FALSE
  /\ calls = [c \in Calls |-> IdleCall]

ConvertToFormat ==
  /\ asked = NoRequest
  /\ \E format \in Formats, sheetName \in {<<>>, Sheet1}, timestamp \in Timestamps,
        hasMetadata \in BOOLEAN :
       /\ asked' = [op |-> "convertToFormat", format |-> format]
       /\ rendered' = convertToFormat(sheet, format, sheetName, timestamp, hasMetadata)
  /\ UNCHANGED <<sheet, reread, lenient, pipelineVars, inferVars>>

WriteToFile ==
  /\ asked = NoRequest
  /\ \E format \in Formats, timestamp \in Timestamps, hasMetadata \in BOOLEAN :
       /\ asked' = [op |-> "writeToFile", format |-> format]
       /\ rendered' = writeToFile(sheet, format, timestamp, hasMetadata)
  /\ UNCHANGED <<sheet, reread, lenient, pipelineVars, inferVars>>

NextFormat == ConvertToFormat \/ WriteToFile

SpecFormat == InitFormat /\ [][NextFormat]_vars

\* the formats an operation takes
TextFormats == {<<"j", "s", "o", "n">>, <<"y", "a", "m", "l">>, <<"c", "s", "v">>, <<"t", "s", "v">>, <<"m", "a", "r", "k", "d", "o", "w", "n">>}
SupportedBy(op) == IF op = "writeToFile" THEN TextFormats \cup {<<"x", "l", "s", "x">>} ELSE TextFormats

\* C14: asked for a format outside the supported ones, convertToFormat and
\* writeToFile both fail with the unsupported-format error, its message
\* naming the format as the caller gave it; every supported format is
\* accepted, in any letter case.
C14_UnsupportedNamedAsGiven ==
  asked # NoRequest =>
    IF ToLowerCase(asked.format) \in SupportedBy(asked.op)
      THEN rendered.err # "Unsupported output format"
      ELSE /\ ~rendered.ok
           /\ rendered.err = "Unsupported output format"
           /\ rendered.named = asked.format


(***************************************************************************)
(* The claims about the ingested sheets (under Spec and SpecInfer).        *)
(***************************************************************************)
\* the calls that returned a workbook
Ingested == {c \in Calls : calls[c].pc = "done" /\ calls[c].result.success}

\* C15: of every ingested sheet, rowCount and columnCount are the numbers of
\* rows and columns of the rectangle its range names; for delimited text
\* that is so for every file, one without a data row and one whose first row
\* has a single field included.
C15_CountsMatchRange ==
  \A c \in Ingested :
    \A i \in 1..Len(calls[c].result.data.sheets) :
      LET s == calls[c].result.data.sheets[i].sheet
          range == decode_range(s.range)
      IN /\ s.rowCount = range.e.r - range.s.r + 1
         /\ s.columnCount = range.e.c - range.s.c + 1

\* C16: the value of a cell of the delimited-text adapter agrees with its
\* type tag: number iff the value is a finite number, boolean iff it is a
\* boolean, date iff it is a valid date, string iff it is the text of the
\* token.
C16_ValueAgreesWithType ==
  inferred # PendingCell =>
    /\ inferred.type \in {"number", "boolean", "date", "string"}
    /\ inferred.type = "number" <=> inferred.value.k = "number"
    /\ inferred.type = "boolean" <=> inferred.value.k = "boolean"
    /\ inferred.type = "date" <=> inferred.value.k = "date"
    /\ inferred.type = "string" <=> inferred.value = StrVal(token)

C16_Witness ==
  /\ token = <<"T", "r", "u", "e">>
  /\ inferred = Cell(BoolVal(TRUE), "boolean")

\* the worksheet of the decoded container under a name
WorksheetNamed(sheetName) == (CHOOSE e \in disk.book.Sheets : e.name = sheetName).ws

\* C17: the grid of a sheet of the binary-workbook adapter has one place for
\* every coordinate of the declared range ('A1:A1' when none is declared),
\* row by row: at (row - startRow, col - startCol) the populated cell of that
\* address, or the empty cell {value: null, type: string}.
C17_GridCoversRange ==
  \A c \in Ingested :
    calls[c].adapter = "excel" =>
      \A i \in 1..Len(calls[c].result.data.sheets) :
        LET s == calls[c].result.data.sheets[i].sheet
            ws == WorksheetNamed(s.name)
            range == decode_range(IF ws.hasRef THEN ws.ref ELSE A1A1)
            Populated(addr) == {cell \in ws.cells : cell.addr = addr}
        IN /\ Len(s.data) = range.e.r - range.s.r + 1
           /\ \A row \in range.s.r..range.e.r :
                /\ Len(s.data[row - range.s.r + 1]) = range.e.c - range.s.c + 1
                /\ \A col \in range.s.c..range.e.c :
                     LET stored == s.data[row - range.s.r + 1][col - range.s.c + 1]
                         found == Populated(encode_cell(row, col))
                     IN IF found = {} THEN stored = EmptyCell
                        ELSE \E cell \in found :
                               stored = Cell(cell.v, mapCellType(cell.t))

C17_Witness ==
  \E c \in Ingested :
    /\ disk.book = OneSheetBook
    /\ calls[c].result.data.sheets[1].sheet.data =
         <<<<Cell(IntVal(1), "number"), EmptyCell>>,
           <<EmptyCell, Cell(StrVal(<<"a">>), "string")>>>>

\* the names of the sheets of a workbook, in the order of the workbook
NamesOf(wb) == [i \in 1..Len(wb.sheets) |-> wb.sheets[i].name]

\* C18: with readAllSheets true the workbook of the binary-workbook adapter
\* has one sheet for every declared name, in the declared order; with
\* readAllSheets false it has the first declared sheet alone; a container
\* without sheet names makes the adapter fail with the empty-workbook error
\* and no workbook (config not changed meanwhile).
C18_SheetsAsDeclared ==
  \A c \in Calls :
    (updates = 0 /\ calls[c].pc = "done" /\ calls[c].adapter = "excel"
       /\ calls[c].settle # NoSettle /\ disk.book.ok) =>
      IF Len(disk.book.SheetNames) = 0
        THEN /\ ~calls[c].result.success /\ ~calls[c].result.hasData
             /\ \E i \in 1..Len(calls[c].result.errors) :
                  calls[c].result.errors[i].cause =
                    "No sheets found in workbook or invalid sheet names"
        ELSE calls[c].result.success =>
               NamesOf(calls[c].result.data) =
                 IF config.readAllSheets THEN disk.book.SheetNames
                 ELSE <<disk.book.SheetNames[1]>>

\* C20: two parseFile calls made under the same configuration, of the same
\* file and with no failure of the file system, return the same envelope,
\* however their steps and the mutators' are interleaved.
C20_CallsIndependent ==
  \A c \in Calls, d \in Calls :
    (/\ calls[c].pc = "done" /\ calls[d].pc = "done"
     /\ calls[c].epoch = calls[d].epoch
     /\ disk.exists
     /\ ~calls[c].probe.failed /\ ~calls[d].probe.failed) =>
      calls[c].result = calls[d].result

(***************************************************************************)
(* The file handle of the delimited-text adapter.                          *)
(***************************************************************************)
\* C21: the handle the delimited-text adapter opens is closed on every exit
\* path: no parseFile call has returned, after normal end of stream or after
\* the parser's error, with its read stream still open.
C21_HandleClosedOnExit ==
  \A c \in Calls : calls[c].pc = "done" => calls[c].handle # "open"

(***************************************************************************)
(* Termination of parseFile.  A call that has begun takes a bounded number *)
(* of steps to its return (each moves it on to a later await, or hands one *)
(* more record to the 'data' handler), and Node's event loop runs every    *)
(* continuation and stream event that is due: the call returns unless an   *)
(* error raised outside parseFile ends the process under it.               *)
(***************************************************************************)
Pending(call) == call.pc \notin {"idle", "done"}

\* C22: every parseFile call that has begun returns its envelope: no call is
\* left pending by an error raised outside parseFile, also when the read
\* stream of the delimited-text adapter fails (the failure reaches the
\* adapter's promise and the call goes on to return success=false).
C22_NoCallLeftPending ==
  \A c \in Calls : Pending(calls[c]) => ~crashed

(***************************************************************************)
(* The gate's allow-set and the adapters of parseFile.                     *)
(***************************************************************************)
\* the call began before any mutator ran, went through the gate, and the
\* gate found the file safe
PassedDefaultGate(call) ==
  call.epoch = 0 /\ call.gated /\ call.report.made /\ call.report.isSafe

UnsupportedFormat(result) ==
  \E i \in 1..Len(result.errors) : result.errors[i].cause = "Unsupported file format"

\* C23: the gate and the dispatch agree on extensions: no call whose file
\* passed the gate under the default configuration ends with an
\* 'Unsupported file format' error.
C23_GateAndDispatchAgree ==
  \A c \in Calls :
    (calls[c].pc = "done" /\ PassedDefaultGate(calls[c])) =>
      ~UnsupportedFormat(calls[c].result)

=============================================================================
